---- MODULE Spec2Model ----
(***************************************************************************)
(* Campaign management routes of the conference-networking CRM.            *)
(*                                                                         *)
(* The repository holds two versions of the campaign router:               *)
(*   src/unnamed/part_001            (all 483 lines)                       *)
(*   src/unnamed/part_000, 126..589  (second half of the file)             *)
(* Both run against the tables of src/server/utils/database.ts.  A         *)
(* deployment mounts one of them; the variable router records which.       *)
(*                                                                         *)
(* The tables campaigns, campaign_messages, campaign_recipients and        *)
(* message_templates are the state.  The handlers are modelled twice:      *)
(*   - one action per request, for requests handled one after the other:   *)
(*     the BEGIN/ROLLBACK pair a handler issues through the pool then      *)
(*     lands on the one connection the pool hands out again, and a failing *)
(*     statement undoes the handler's earlier statements;                  *)
(*   - one action per await pool.query(...), for requests in flight at the *)
(*     same time: every statement goes to whichever client of the pool is  *)
(*     free (src/unnamed/part_005, createDatabasePool).                    *)
(* The template router is src/unnamed/part_002.                            *)
(*                                                                         *)
(* Two further parts of the server have their own state and sections:      *)
(*   - the LinkedIn router and service (src/server/routes/linkedin.ts,     *)
(*     src/server/services/linkedin.ts): OAuth states, the table           *)
(*     linkedin_connections and the calls to LinkedIn, one action per      *)
(*     await of a handler;                                                 *)
(*   - the start of the server (initializeApp, src/unnamed/part_005): the  *)
(*     connection retry loop up to app.listen.                             *)
(***************************************************************************)
EXTENDS Integers, Sequences, FiniteSets, TLC

\* ---------------------------------------------------------------- bounds
MaxCampaigns == 1      \* campaign ids in use at the same time
MaxContacts  == 1      \* contacts that can be added as recipients
MaxMessages  == 1      \* longest messages array / largest message_count sent
MaxTime      == 3      \* requests handled in one behaviour
PoolMax      == 2      \* clients the pool opens at most (new Pool has max: 20)

\* ------------------------------------------------------------ value sets
NULL == 0              \* SQL NULL / absent body field of an integer column
None == "none"         \* absent body field of a text column

Routers       == {"part_001", "part_000"}
Users         == {"u1", "u2"}
CampaignIds   == 1..MaxCampaigns
IdSpace       == 1..(MaxCampaigns + 1)   \* ids the campaigns table hands out
ContactIds    == 1..MaxContacts
CampaignTypes == {"linkedin", "email", "mixed"}
MessageTypes  == {"linkedin", "email"}
Statuses      == {"draft", "active", "paused", "completed", "cancelled"}
Conns         == 1..PoolMax

\* A query handed to pool.query by request number request.
NoArg == [none |-> TRUE]
Statement(r, kind, arg) == [request |-> r, kind |-> kind, arg |-> arg]
NoStatement == Statement(0, "none", NoArg)

\* A client of the pool: whether it is connected, the query it is running,
\* the state of its session's transaction ("none", "open", "aborted"), the
\* rows that transaction has inserted or updated and not yet committed, and
\* the campaign_messages rows it has deleted.
NoClient ==
    [connected |-> FALSE, query |-> NoStatement, txn |-> "none",
     campaigns |-> << >>, messages |-> {}, recipients |-> {}, deleted |-> {}]

VARIABLES router, campaigns, campaign_messages, campaign_recipients, now, last,
          started, clients, idle, waiting, requests, message_templates,
          message_text, builder,
          oauthStates, linkedin_connections, clock, flights, api,
          production, pool_ssl, connected, attempts, tables, phase, attempt_log

\* The campaign and template routes and the CampaignBuilder component.
crmVars == <<router, campaigns, campaign_messages, campaign_recipients, now, last,
             started, clients, idle, waiting, requests, message_templates,
             message_text, builder>>

\* The LinkedIn routes (src/server/routes/linkedin.ts): the oauthStates map,
\* the linkedin_connections table, the wall clock, the requests handled or in
\* flight, and the calls made to LinkedIn's API.
linkedinVars == <<oauthStates, linkedin_connections, clock, flights, api>>

\* initializeApp (src/unnamed/part_005): NODE_ENV === 'production', whether
\* the pool was built with ssl, the loop's connected and attempts, whether
\* createTables has run to its end, the position in initializeApp, and what
\* each attempt ended with.
bootVars == <<production, pool_ssl, connected, attempts, tables, phase,
              attempt_log>>

vars == <<crmVars, linkedinVars, bootVars>>

\* The routes of one subsystem leave the state of the others alone.
Elsewhere == UNCHANGED linkedinVars /\ UNCHANGED bootVars

\* The connection pool and the requests in flight.
poolVars == <<clients, idle, waiting, requests>>

\* The subject and message_body columns of campaign_messages, and the state
\* of the CampaignBuilder component of a browser (src/unnamed/part_014).
editorVars == <<message_text, builder>>

\* The component before it is mounted.
NoBuilder == [open |-> FALSE, editCampaignId |-> 0, messages |-> << >>,
              templates |-> << >>]

\* ---------------------------------------------------------------- tables
\* A row of campaigns, as INSERT leaves it: status defaults to 'draft'.
CampaignRow(u, type, mc, iv, sd) ==
    [user_id |-> u, type |-> type, status |-> "draft", message_count |-> mc,
     interval_days |-> iv, start_date |-> sd]

\* A row of campaign_messages.
MessageRow(c, seq, mtype) ==
    [campaign_id |-> c, sequence_number |-> seq, message_type |-> mtype]

\* A row of campaign_recipients with the column defaults of the table.
RecipientRow(c, k) ==
    [campaign_id |-> c, contact_id |-> k, status |-> "pending",
     current_message_sequence |-> 1, last_message_sent_at |-> NULL,
     next_message_scheduled_at |-> NULL]

MessagesOf(rows, c)   == {m \in rows : m.campaign_id = c}
RecipientsOf(rows, c) == {r \in rows : r.campaign_id = c}

\* The lookup without its user_id condition.
OwnedBy_AnyUser(c, u) == c \in DOMAIN campaigns

\* SELECT * FROM campaigns WHERE id = c AND user_id = u
OwnedBy(c, u) == c \in DOMAIN campaigns /\ campaigns[c].user_id = u

\* gen_random_uuid(): an id no stored campaign has.
FreshId == CHOOSE c \in IdSpace : c \notin DOMAIN campaigns

\* ---------------------------------------------------------- request log
\* last is the request handled most recently and the HTTP status returned.
NoRequest == [op |-> "none", code |-> 0, id |-> 0, user |-> None,
              action |-> None]

Logged(op, code, c, u, action) ==
    [op |-> op, code |-> code, id |-> c, user |-> u, action |-> action]

InitCrm ==
    /\ router \in Routers
    /\ campaigns = << >>
    /\ campaign_messages = {}
    /\ campaign_recipients = {}
    /\ now = 1
    /\ last = NoRequest
    /\ started = {}
    /\ clients = [k \in Conns |-> NoClient]
    /\ idle = << >>
    /\ waiting = << >>
    /\ requests = << >>
    /\ message_templates = << >>
    /\ message_text = {}
    /\ builder = NoBuilder

\* No OAuth flow has begun and no LinkedIn account is connected.
InitLinkedInIdle ==
    /\ oauthStates = << >>
    /\ linkedin_connections = {}
    /\ clock = 0
    /\ flights = << >>
    /\ api = << >>

\* initializeApp has run to app.listen with the database connected.
InitBooted ==
    /\ production = TRUE
    /\ pool_ssl = TRUE
    /\ connected = TRUE
    /\ attempts = 1
    /\ tables = TRUE
    /\ phase = "listening"
    /\ attempt_log = <<"initialized">>

Init == InitCrm /\ InitLinkedInIdle /\ InitBooted

\* A handled request: the response is logged and the clock moves on, so
\* CURRENT_TIMESTAMP differs between requests.
Respond(op, code, c, u, action) ==
    /\ last' = Logged(op, code, c, u, action)
    /\ now' = now + 1

Unchanged == UNCHANGED <<router, campaigns, campaign_messages, campaign_recipients,
                         started>>

\* --------------------------------------------------- campaign_messages
\* The rows a list of message entries inserts for campaign c.
RowsOf(c, entries) ==
    {MessageRow(c, entries[i].sequence_number, entries[i].message_type) :
        i \in 1..Len(entries)}

\* Every INSERT INTO campaign_messages of the list succeeds: the CHECK on
\* message_type holds and UNIQUE(campaign_id, sequence_number, message_type)
\* is not violated by an earlier entry of the list or a stored row.
InsertsSucceed(c, entries, stored) ==
    /\ \A i \in 1..Len(entries) : entries[i].message_type \in MessageTypes
    /\ \A i, j \in 1..Len(entries) :
          i # j => <<entries[i].sequence_number, entries[i].message_type>>
                     # <<entries[j].sequence_number, entries[j].message_type>>
    /\ RowsOf(c, entries) \cap stored = {}

\* part_001 inserts message.sequence_number and message.message_type as sent.
Entries_001(messages, type) == messages

\* part_000 numbers the entries i + 1 and gives them the campaign's type.
Entries_000(messages, type) ==
    [i \in 1..Len(messages) |-> [sequence_number |-> i, message_type |-> type]]

\* ------------------------------------------------------ POST / (create)
\* if (!name || !type || !message_count || !messages)
MissingRequired(body) ==
    \/ ~body.name
    \/ body.type = None
    \/ body.message_count = NULL
    \/ ~body.has_messages

\* part_000 only: if (messages.length !== message_count)
CountMismatch_000(body) == Len(body.messages) # body.message_count

\* interval_days || 1
IntervalOrDefault(iv) == IF iv = NULL THEN 1 ELSE iv

CreateCampaign_001(u, body) ==
    /\ router = "part_001"
    /\ DOMAIN campaigns # IdSpace
    /\ LET c       == FreshId
           entries == Entries_001(body.messages, body.type)
           row     == CampaignRow(u, body.type, body.message_count,
                                  IntervalOrDefault(body.interval_days), NULL)
       IN  IF MissingRequired(body)
           THEN Unchanged /\ Respond("create", 400, c, u, None)
           ELSE IF InsertsSucceed(c, entries, campaign_messages)
           THEN /\ campaigns' = campaigns @@ (c :> row)
                /\ campaign_messages' = campaign_messages \cup RowsOf(c, entries)
                /\ UNCHANGED <<router, campaign_recipients, started>>
                /\ Respond("create", 201, c, u, None)
           ELSE \* catch: ROLLBACK, then 500
                Unchanged /\ Respond("create", 500, c, u, None)

CreateCampaign_000(u, body) ==
    /\ router = "part_000"
    /\ DOMAIN campaigns # IdSpace
    /\ LET c       == FreshId
           entries == Entries_000(body.messages, body.type)
           row     == CampaignRow(u, body.type, body.message_count,
                                  body.interval_days, NULL)
       IN  IF MissingRequired(body) \/ CountMismatch_000(body)
           THEN Unchanged /\ Respond("create", 400, c, u, None)
           ELSE IF /\ body.interval_days # NULL      \* interval_days is NOT NULL
                   /\ InsertsSucceed(c, entries, campaign_messages)
           THEN /\ campaigns' = campaigns @@ (c :> row)
                /\ campaign_messages' = campaign_messages \cup RowsOf(c, entries)
                /\ UNCHANGED <<router, campaign_recipients, started>>
                /\ Respond("create", 201, c, u, None)
           ELSE Unchanged /\ Respond("create", 500, c, u, None)

\* ----------------------------------------------------- PUT /:id (update)
\* COALESCE($n, column): an absent body field keeps the stored value.
COALESCE(new, old, absent) == IF new = absent THEN old ELSE new

\* part_001: UPDATE campaigns SET type, status, message_count = COALESCE(...)
UpdatedRow_001(row, body) ==
    [row EXCEPT !.type          = COALESCE(body.type, @, None),
                !.status        = COALESCE(body.status, @, None),
                !.message_count = COALESCE(body.message_count, @, NULL)]

\* part_000: the same UPDATE without the status column.
UpdatedRow_000(row, body) ==
    [row EXCEPT !.type          = COALESCE(body.type, @, None),
                !.message_count = COALESCE(body.message_count, @, NULL)]

UpdateCampaign_001(u, c, body) ==
    /\ router = "part_001"
    /\ IF ~OwnedBy(c, u)
       THEN Unchanged /\ Respond("update", 404, c, u, None)
       ELSE LET entries == Entries_001(body.messages, body.type)
                others  == campaign_messages \ MessagesOf(campaign_messages, c)
            IN  IF ~body.has_messages
                THEN /\ campaigns' = [campaigns EXCEPT ![c] = UpdatedRow_001(@, body)]
                     /\ started' = started \ {c}
                     /\ UNCHANGED <<router, campaign_messages, campaign_recipients>>
                     /\ Respond("update", 200, c, u, None)
                ELSE IF InsertsSucceed(c, entries, others)
                THEN \* DELETE FROM campaign_messages, then the inserts
                     /\ campaigns' = [campaigns EXCEPT ![c] = UpdatedRow_001(@, body)]
                     /\ campaign_messages' = others \cup RowsOf(c, entries)
                     /\ started' = started \ {c}
                     /\ UNCHANGED <<router, campaign_recipients>>
                     /\ Respond("update", 200, c, u, None)
                ELSE Unchanged /\ Respond("update", 500, c, u, None)

UpdateCampaign_000(u, c, body) ==
    /\ router = "part_000"
    /\ IF ~OwnedBy(c, u)
       THEN Unchanged /\ Respond("update", 404, c, u, None)
       ELSE LET \* type || existingCampaign.rows[0].type
                mtype   == COALESCE(body.type, campaigns[c].type, None)
                entries == Entries_000(body.messages, mtype)
                others  == campaign_messages \ MessagesOf(campaign_messages, c)
            IN  IF ~body.has_messages
                THEN /\ campaigns' = [campaigns EXCEPT ![c] = UpdatedRow_000(@, body)]
                     /\ started' = started \ {c}
                     /\ UNCHANGED <<router, campaign_messages, campaign_recipients>>
                     /\ Respond("update", 200, c, u, None)
                ELSE IF InsertsSucceed(c, entries, others)
                THEN /\ campaigns' = [campaigns EXCEPT ![c] = UpdatedRow_000(@, body)]
                     /\ campaign_messages' = others \cup RowsOf(c, entries)
                     /\ started' = started \ {c}
                     /\ UNCHANGED <<router, campaign_recipients>>
                     /\ Respond("update", 200, c, u, None)
                ELSE Unchanged /\ Respond("update", 500, c, u, None)

\* ------------------------------------------------------- DELETE /:id
\* DELETE FROM campaigns WHERE id AND user_id; ON DELETE CASCADE removes the
\* campaign's message and recipient rows.  The same statement in both routers.
\* (DeleteCampaign_NoCascade: the statement on tables without the cascade.)
DeleteCampaign_NoCascade(u, c) ==
    /\ IF ~OwnedBy(c, u)
       THEN Unchanged /\ Respond("delete", 404, c, u, None)
       ELSE /\ campaigns' = [d \in DOMAIN campaigns \ {c} |-> campaigns[d]]
            /\ started' = started \ {c}
            /\ UNCHANGED <<router, campaign_messages, campaign_recipients>>
            /\ Respond("delete", 200, c, u, None)

DeleteCampaign(u, c) ==
    /\ IF ~OwnedBy(c, u)
       THEN Unchanged /\ Respond("delete", 404, c, u, None)
       ELSE /\ campaigns' = [d \in DOMAIN campaigns \ {c} |-> campaigns[d]]
            /\ campaign_messages' =
                   campaign_messages \ MessagesOf(campaign_messages, c)
            /\ campaign_recipients' =
                   campaign_recipients \ RecipientsOf(campaign_recipients, c)
            /\ started' = started \ {c}
            /\ UNCHANGED router
            /\ Respond("delete", 200, c, u, None)

\* ------------------------------------------------ POST /:id/recipients
\* INSERT ... ON CONFLICT (campaign_id, contact_id) DO NOTHING, one per id.
InsertRecipients(rows, c, ids) ==
    rows \cup {RecipientRow(c, k) :
                  k \in {i \in ids : \A r \in rows :
                            ~(r.campaign_id = c /\ r.contact_id = i)}}

AddRecipients(u, c, body) ==
    /\ IF ~body.has_contact_ids
       THEN Unchanged /\ Respond("recipients", 400, c, u, None)
       ELSE IF ~OwnedBy(c, u)
       THEN Unchanged /\ Respond("recipients", 404, c, u, None)
       ELSE /\ campaign_recipients' =
                   InsertRecipients(campaign_recipients, c, body.contact_ids)
            /\ UNCHANGED <<router, campaigns, campaign_messages, started>>
            /\ Respond("recipients", 200, c, u, None)

\* --------------------------------------------------- POST /:id/start
\* part_001: WHERE ... AND status = 'draft'
StartWhere_001(status) == status = "draft"

\* The WHERE clause widened to let an active campaign start again.
StartWhere_000_AlsoActive(status) == status \in {"draft", "paused", "active"}

\* part_000: WHERE ... AND status IN ('draft', 'paused')
StartWhere_000(status) == status \in {"draft", "paused"}

\* part_001: start_date = CASE WHEN start_date IS NULL THEN CURRENT_TIMESTAMP
\*                             ELSE start_date END
StartedRow_001(row, t) ==
    [row EXCEPT !.status = "active",
                !.start_date = IF @ = NULL THEN t ELSE @]

\* part_000: SET status = 'active', start_date = CURRENT_TIMESTAMP
StartedRow_000(row, t) ==
    [row EXCEPT !.status = "active", !.start_date = t]

\* started: the campaigns a start request has moved from draft to active and
\* no update, pause, resume or delete has touched since.
StartedAfter(c) ==
    IF campaigns[c].status = "draft" THEN started \cup {c} ELSE started

StartCampaign_001(u, c) ==
    /\ router = "part_001"
    /\ IF OwnedBy(c, u) /\ StartWhere_001(campaigns[c].status)
       THEN /\ campaigns' = [campaigns EXCEPT ![c] = StartedRow_001(@, now)]
            /\ started' = StartedAfter(c)
            /\ UNCHANGED <<router, campaign_messages, campaign_recipients>>
            /\ Respond("start", 200, c, u, None)
       ELSE Unchanged /\ Respond("start", 400, c, u, None)

StartCampaign_000(u, c) ==
    /\ router = "part_000"
    /\ IF OwnedBy(c, u) /\ StartWhere_000(campaigns[c].status)
       THEN /\ campaigns' = [campaigns EXCEPT ![c] = StartedRow_000(@, now)]
            /\ started' = StartedAfter(c)
            /\ UNCHANGED <<router, campaign_messages, campaign_recipients>>
            /\ Respond("start", 200, c, u, None)
       ELSE Unchanged /\ Respond("start", 404, c, u, None)

\* --------------------------------------------------- POST /:id/pause
\* part_001: const newStatus = action === 'resume' ? 'active' : 'paused'
NewStatus_001(action) == IF action = "resume" THEN "active" ELSE "paused"

\* part_001: WHERE ... AND status IN ('active', 'paused')
PauseWhere_001(action, status) == status \in {"active", "paused"}

\* part_000: if (!action || !['pause', 'resume'].includes(action))
BadAction_000(action) == action \notin {"pause", "resume"}

\* part_000: const newStatus = action === 'pause' ? 'paused' : 'active'
NewStatus_000(action) == IF action = "pause" THEN "paused" ELSE "active"

\* part_000: allowedCurrentStatuses = action === 'pause' ? ['active'] : ['paused']
PauseWhere_000(action, status) ==
    status \in (IF action = "pause" THEN {"active"} ELSE {"paused"})

PauseCampaign_001(u, c, action) ==
    /\ router = "part_001"
    /\ IF OwnedBy(c, u) /\ PauseWhere_001(action, campaigns[c].status)
       THEN /\ campaigns' = [campaigns EXCEPT ![c].status = NewStatus_001(action)]
            /\ started' = started \ {c}
            /\ UNCHANGED <<router, campaign_messages, campaign_recipients>>
            /\ Respond("pause", 200, c, u, action)
       ELSE Unchanged /\ Respond("pause", 400, c, u, action)

PauseCampaign_000(u, c, action) ==
    /\ router = "part_000"
    /\ IF BadAction_000(action)
       THEN Unchanged /\ Respond("pause", 400, c, u, action)
       ELSE IF OwnedBy(c, u) /\ PauseWhere_000(action, campaigns[c].status)
       THEN /\ campaigns' = [campaigns EXCEPT ![c].status = NewStatus_000(action)]
            /\ started' = started \ {c}
            /\ UNCHANGED <<router, campaign_messages, campaign_recipients>>
            /\ Respond("pause", 200, c, u, action)
       ELSE Unchanged /\ Respond("pause", 404, c, u, action)

\* ------------------------------------------------------ request inputs
\* messages arrays of up to MaxMessages entries with the given channel types.
MessageListsOf(types) ==
    UNION {[1..n -> [sequence_number : 1..MaxMessages, message_type : types]] :
              n \in 0..MaxMessages}

\* Bodies of POST /: all required fields present, or exactly one missing.
CreateBodiesOf(types, lists) ==
    {b \in [name : BOOLEAN, type : types \cup {None},
            message_count : {NULL} \cup 1..MaxMessages,
            interval_days : {NULL, 1},
            has_messages : BOOLEAN, messages : lists] :
        /\ ~b.has_messages => b.messages = << >>
        /\ Cardinality({f \in {"name", "type", "message_count", "messages"} :
              \/ f = "name" /\ ~b.name
              \/ f = "type" /\ b.type = None
              \/ f = "message_count" /\ b.message_count = NULL
              \/ f = "messages" /\ ~b.has_messages}) <= 1}

\* Bodies of PUT /:id: each field present or absent.
UpdateBodiesOf(types, lists) ==
    {b \in [type : types \cup {None}, status : Statuses \cup {None},
            message_count : {NULL} \cup 1..MaxMessages,
            has_messages : BOOLEAN, messages : lists] :
        ~b.has_messages => b.messages = << >>}

\* The lifecycle is explored with LinkedIn campaigns; an update either sets
\* the status or edits message_count and the message sequence.
CreateBodies == CreateBodiesOf({"linkedin"}, MessageListsOf({"linkedin"}))

UpdateBodies ==
    {b \in UpdateBodiesOf({}, MessageListsOf({"linkedin"})) :
        b.status # None => (b.message_count = NULL /\ ~b.has_messages)}

RecipientBodies ==
    {b \in [has_contact_ids : BOOLEAN, contact_ids : SUBSET ContactIds] :
        ~b.has_contact_ids => b.contact_ids = {}}

PauseActions == {"pause", "resume", "stop", None}

\* A behaviour handles at most MaxTime requests.
InTime == now <= MaxTime

\* Requests handled one after the other: no query of another request is in
\* flight, and every query of the handler runs on the one client the pool
\* hands out again.  The campaign routers have no statement on
\* message_templates.
OneByOne ==
    /\ UNCHANGED poolVars /\ UNCHANGED message_templates /\ UNCHANGED editorVars
    /\ Elsewhere

\* At most MaxCampaigns campaigns are stored at a time.
HasRoom == Cardinality(DOMAIN campaigns) < MaxCampaigns

Next ==
    \/ InTime /\ OneByOne /\ HasRoom /\ \E u \in Users, b \in CreateBodies :
          CreateCampaign_001(u, b)
    \/ InTime /\ OneByOne /\ HasRoom /\ \E u \in Users, b \in CreateBodies :
          CreateCampaign_000(u, b)
    \/ InTime /\ OneByOne /\ \E u \in Users, c \in CampaignIds, b \in RecipientBodies :
          AddRecipients(u, c, b)
    \/ InTime /\ OneByOne /\ \E u \in Users, c \in CampaignIds : StartCampaign_001(u, c)
    \/ InTime /\ OneByOne /\ \E u \in Users, c \in CampaignIds : StartCampaign_000(u, c)
    \/ InTime /\ OneByOne /\ \E u \in Users, c \in CampaignIds, a \in PauseActions :
          PauseCampaign_001(u, c, a)
    \/ InTime /\ OneByOne /\ \E u \in Users, c \in CampaignIds, a \in PauseActions :
          PauseCampaign_000(u, c, a)
    \/ InTime /\ OneByOne /\ \E u \in Users, c \in CampaignIds, b \in UpdateBodies :
          UpdateCampaign_001(u, c, b)
    \/ InTime /\ OneByOne /\ \E u \in Users, c \in CampaignIds, b \in UpdateBodies :
          UpdateCampaign_000(u, c, b)
    \/ InTime /\ OneByOne /\ \E u \in Users, c \in CampaignIds : DeleteCampaign(u, c)

Spec == Init /\ [][Next]_vars

\* ===================================================================
\* Properties
\* ===================================================================
Succeeded(code) == code \in {200, 201}

\* The request a step handles, read from the log the step writes.
Handles(op, c) == last'.op = op /\ last'.id = c

LegalTransitions ==
    {<<"draft", "active">>, <<"active", "paused">>, <<"paused", "active">>,
     <<"active", "completed">>, <<"paused", "completed">>,
     <<"draft", "cancelled">>, <<"active", "cancelled">>,
     <<"paused", "cancelled">>}

\* C1: over any management operation a campaign's status changes only along
\* draft->active, active->paused, paused->active, active/paused->completed
\* and draft/active/paused->cancelled; nothing leaves completed or cancelled.
C1_StatusTransitions ==
    [][\A c \in DOMAIN campaigns \cap DOMAIN campaigns' :
          campaigns'[c].status # campaigns[c].status
             => <<campaigns[c].status, campaigns'[c].status>> \in LegalTransitions]_vars

\* C2: a start request on a campaign that is active (a second start, the
\* first having moved it from draft to active) is answered with an error and
\* leaves the campaign row, start_date included, and its message and
\* recipient rows as they were.
C2_SecondStartRejected ==
    [][\A c \in DOMAIN campaigns :
          (Handles("start", c) /\ campaigns[c].status = "active")
             => /\ ~Succeeded(last'.code)
                /\ campaigns' = campaigns
                /\ campaign_messages' = campaign_messages
                /\ campaign_recipients' = campaign_recipients]_vars

\* C2 witness: the owner's start request was rejected on a campaign that an
\* earlier start request moved from draft to active and that is still active.
C2_Witness ==
    /\ last.op = "start"
    /\ ~Succeeded(last.code)
    /\ last.id \in started
    /\ last.id \in DOMAIN campaigns
    /\ campaigns[last.id].user_id = last.user
    /\ campaigns[last.id].status = "active"
    /\ campaigns[last.id].start_date # NULL

\* C3: a start request moves a draft campaign to active only if the campaign
\* has message_count message entries and at least one recipient.
C3_StartGuards ==
    [][\A c \in DOMAIN campaigns :
          (Handles("start", c) /\ campaigns[c].status = "draft"
             /\ campaigns'[c].status = "active")
             => /\ Cardinality(MessagesOf(campaign_messages, c))
                      = campaigns[c].message_count
                /\ RecipientsOf(campaign_recipients, c) # {}]_vars

\* C4: on the pause route 'pause' is accepted only for an active campaign and
\* 'resume' only for a paused one; any other status or action is answered
\* with an error and leaves the status unchanged.
C4_PauseResumeGuards ==
    [][\A c \in DOMAIN campaigns :
          (Handles("pause", c) /\ campaigns[c].user_id = last'.user)
             => IF \/ last'.action = "pause" /\ campaigns[c].status = "active"
                   \/ last'.action = "resume" /\ campaigns[c].status = "paused"
                THEN TRUE
                ELSE /\ ~Succeeded(last'.code)
                     /\ campaigns'[c].status = campaigns[c].status]_vars

\* C10: after a successful create or update the stored message_count equals
\* the number of message entries stored for the campaign.
C10_CountMatchesEntries ==
    (last.op \in {"create", "update"} /\ Succeeded(last.code))
        => campaigns[last.id].message_count
              = Cardinality(MessagesOf(campaign_messages, last.id))

\* ===================================================================
\* Editing the message sequence
\* ===================================================================
\* Create and update requests of one user whose messages arrays carry any
\* sequence numbers and channel types, in any order, and whose
\* message_count is any integer a client may send.
SeqNumbers == 1..(MaxMessages + 1)

SequenceLists ==
    UNION {[1..n -> [sequence_number : SeqNumbers, message_type : MessageTypes]] :
              n \in 0..(MaxMessages + 1)}

SeqCreateBodies ==
    [name : {TRUE}, type : {"linkedin"}, message_count : SeqNumbers,
     interval_days : {1}, has_messages : {TRUE}, messages : SequenceLists]

SeqUpdateBodies ==
    {b \in [type : {None, "email"}, status : {None},
            message_count : {NULL, -1} \cup SeqNumbers,
            has_messages : BOOLEAN, messages : SequenceLists] :
        ~b.has_messages => b.messages = << >>}

SeqRecipientBodies == {[has_contact_ids |-> TRUE, contact_ids |-> ContactIds]}

NextSeq ==
    \/ InTime /\ OneByOne /\ HasRoom /\ \E b \in SeqCreateBodies : CreateCampaign_001("u1", b)
    \/ InTime /\ OneByOne /\ HasRoom /\ \E b \in SeqCreateBodies : CreateCampaign_000("u1", b)
    \/ InTime /\ OneByOne /\ \E c \in CampaignIds, b \in SeqRecipientBodies :
          AddRecipients("u1", c, b)
    \/ InTime /\ OneByOne /\ \E c \in CampaignIds, b \in SeqUpdateBodies :
          UpdateCampaign_001("u1", c, b)
    \/ InTime /\ OneByOne /\ \E c \in CampaignIds, b \in SeqUpdateBodies :
          UpdateCampaign_000("u1", c, b)

SpecSeq == Init /\ [][NextSeq]_vars

\* C11: in every state reached through create and update requests the
\* sequence numbers of a campaign's stored message entries are exactly
\* 1..message_count, each carried by one entry: no duplicate and no gap.
C11_SequenceNumbers ==
    \A c \in DOMAIN campaigns :
        LET stored == MessagesOf(campaign_messages, c)
        IN  /\ {m.sequence_number : m \in stored} = 1..campaigns[c].message_count
            /\ Cardinality(stored) = campaigns[c].message_count

\* ===================================================================
\* Requests in flight: a handler's statements through pool.query
\* ===================================================================
\* Each await pool.query(...) of a handler is two steps: the query is handed
\* to a client of the pool, and the client finishes it, is released and the
\* handler continues.  Between the two, other requests run.

\* ------------------------------------------------------------ the pool
PoolOf(cl, id, wt) == [clients |-> cl, idle |-> id, waiting |-> wt]

\* pool.query: the client released last if one is idle, else a new client
\* while fewer than max are connected, else the query waits in line.
Acquire(P, q) ==
    IF P.idle # << >>
    THEN LET k == P.idle[Len(P.idle)]
         IN  PoolOf([P.clients EXCEPT ![k].query = q],
                    SubSeq(P.idle, 1, Len(P.idle) - 1), P.waiting)
    ELSE IF \E k \in Conns : ~P.clients[k].connected
    THEN LET k == CHOOSE j \in Conns :
                     /\ ~P.clients[j].connected
                     /\ \A i \in Conns : ~P.clients[i].connected => j <= i
         IN  PoolOf([P.clients EXCEPT ![k].connected = TRUE, ![k].query = q],
                    P.idle, P.waiting)
    ELSE PoolOf(P.clients, P.idle, Append(P.waiting, q))

RECURSIVE AcquireAll(_, _)
AcquireAll(P, qs) ==
    IF qs = << >> THEN P ELSE AcquireAll(Acquire(P, Head(qs)), Tail(qs))

\* client.release(): the client goes to the query waiting longest, or idle.
Release(P, k) ==
    IF P.waiting # << >>
    THEN PoolOf([P.clients EXCEPT ![k].query = Head(P.waiting)], P.idle,
                Tail(P.waiting))
    ELSE PoolOf([P.clients EXCEPT ![k].query = NoStatement],
                Append(P.idle, k), P.waiting)

\* ------------------------------------------------- statements on a client
\* What a statement on client k reads: the committed rows and the rows of
\* the client's own open transaction.
VisibleCampaigns(k)  == clients[k].campaigns @@ campaigns
VisibleMessages(k)   ==
    (campaign_messages \ clients[k].deleted) \cup clients[k].messages
VisibleRecipients(k) == campaign_recipients \cup clients[k].recipients

\* An INSERT whose unique key is held by a row the open transaction of
\* client j has inserted or deleted waits until that transaction ends; so
\* does an UPDATE or DELETE of a row that transaction has updated or deleted.
BlockedBy(k, j) ==
    LET q == clients[k].query
    IN  /\ j # k
        /\ clients[k].txn # "aborted"
        /\ \/ /\ q.kind = "INSERT_MESSAGE"
              /\ q.arg \in clients[j].messages \cup clients[j].deleted
           \/ /\ q.kind = "INSERT_RECIPIENT"
              /\ \E x \in clients[j].recipients :
                    /\ x.campaign_id = q.arg.campaign_id
                    /\ x.contact_id = q.arg.contact_id
           \/ /\ q.kind = "UPDATE_CAMPAIGN"
              /\ q.arg.id \in DOMAIN campaigns
              /\ q.arg.id \in DOMAIN clients[j].campaigns
           \/ /\ q.kind = "DELETE_MESSAGES"
              /\ \E m \in clients[j].deleted : m.campaign_id = q.arg.id

Blocked(k) == \E j \in Conns : BlockedBy(k, j)

\* The clients whose transactions the queries of the clients in S wait
\* for, directly or through other waiting queries.
RECURSIVE WaitsFor(_)
WaitsFor(S) ==
    LET more == S \cup {j \in Conns : \E i \in S : BlockedBy(i, j)}
    IN  IF more = S THEN S ELSE WaitsFor(more)

\* The query of client k waits in a cycle of waiting queries; the server's
\* deadlock detector ends the wait of one of them with an error.
Deadlocked(k) ==
    \E j \in Conns : BlockedBy(k, j) /\ k \in WaitsFor({j})

Result(ok, rows, cl, cs, ms, rs) ==
    [ok |-> ok, rows |-> rows, client |-> cl, campaigns |-> cs,
     messages |-> ms, recipients |-> rs]

\* The statement returns rows and writes nothing.
Reads(k, rows) ==
    Result(TRUE, rows, clients[k], campaigns, campaign_messages,
           campaign_recipients)

\* The statement raises an error; an open transaction becomes aborted.
Raises(k) ==
    Result(FALSE, {},
           [clients[k] EXCEPT !.txn = IF @ = "open" THEN "aborted" ELSE @],
           campaigns, campaign_messages, campaign_recipients)

\* The session of client k without a transaction.
Ended(k) ==
    [clients[k] EXCEPT !.txn = "none", !.campaigns = << >>, !.messages = {},
                       !.recipients = {}, !.deleted = {}]

\* An id gen_random_uuid() gives a new campaigns row.
NewId ==
    CHOOSE c \in IdSpace :
        /\ c \notin DOMAIN campaigns
        /\ \A k \in Conns : c \notin DOMAIN clients[k].campaigns
        /\ \A r \in 1..Len(requests) :
              requests[r].kind = "create" => requests[r].id # c

\* The outcome of the query client k is running.
Outcome(k) ==
    LET q    == clients[k].query
        cl   == clients[k]
        open == cl.txn = "open"
    IN  IF \/ cl.txn = "aborted" /\ q.kind \notin {"COMMIT", "ROLLBACK"}
           \/ Blocked(k)                    \* chosen by the deadlock detector
        THEN Raises(k)
        ELSE CASE q.kind = "BEGIN" ->
                 Result(TRUE, {}, [cl EXCEPT !.txn = "open"], campaigns,
                        campaign_messages, campaign_recipients)
             [] q.kind = "COMMIT" ->
                 IF open
                 THEN Result(TRUE, {}, Ended(k), cl.campaigns @@ campaigns,
                             (campaign_messages \ cl.deleted) \cup cl.messages,
                             campaign_recipients \cup cl.recipients)
                 ELSE Result(TRUE, {}, Ended(k), campaigns, campaign_messages,
                             campaign_recipients)
             [] q.kind = "ROLLBACK" ->
                 Result(TRUE, {}, Ended(k), campaigns, campaign_messages,
                        campaign_recipients)
             [] q.kind = "INSERT_CAMPAIGN" ->
                 IF q.arg.type \notin CampaignTypes \/ q.arg.interval_days = NULL
                 THEN Raises(k)
                 ELSE IF open
                 THEN Result(TRUE, {NewId},
                             [cl EXCEPT !.campaigns = (NewId :> q.arg) @@ @],
                             campaigns, campaign_messages, campaign_recipients)
                 ELSE Result(TRUE, {NewId}, cl, (NewId :> q.arg) @@ campaigns,
                             campaign_messages, campaign_recipients)
             [] q.kind = "INSERT_MESSAGE" ->
                 IF \/ q.arg.message_type \notin MessageTypes
                    \/ q.arg \in VisibleMessages(k)
                    \/ q.arg.campaign_id \notin DOMAIN VisibleCampaigns(k)
                 THEN Raises(k)
                 ELSE IF open
                 THEN Result(TRUE, {}, [cl EXCEPT !.messages = @ \cup {q.arg}],
                             campaigns, campaign_messages, campaign_recipients)
                 ELSE Result(TRUE, {}, cl, campaigns,
                             campaign_messages \cup {q.arg}, campaign_recipients)
             [] q.kind = "INSERT_RECIPIENT" ->
                 IF \E x \in VisibleRecipients(k) :
                       /\ x.campaign_id = q.arg.campaign_id
                       /\ x.contact_id = q.arg.contact_id
                 THEN Reads(k, {})             \* ON CONFLICT DO NOTHING
                 ELSE IF q.arg.campaign_id \notin DOMAIN VisibleCampaigns(k)
                 THEN Raises(k)
                 ELSE IF open
                 THEN Result(TRUE, {q.arg},
                             [cl EXCEPT !.recipients = @ \cup {q.arg}],
                             campaigns, campaign_messages, campaign_recipients)
                 ELSE Result(TRUE, {q.arg}, cl, campaigns, campaign_messages,
                             campaign_recipients \cup {q.arg})
             [] q.kind = "SELECT_CAMPAIGN" ->
                 Reads(k, {c \in DOMAIN VisibleCampaigns(k) :
                              /\ c = q.arg.id
                              /\ VisibleCampaigns(k)[c].user_id = q.arg.user_id})
             [] q.kind = "SELECT_MESSAGES" ->
                 Reads(k, MessagesOf(VisibleMessages(k), q.arg.id))
             [] q.kind = "SELECT_RECIPIENTS" ->
                 Reads(k, RecipientsOf(VisibleRecipients(k), q.arg.id))
             [] q.kind = "UPDATE_CAMPAIGN" ->
                 LET c == q.arg.id
                 IN  IF \/ c \notin DOMAIN VisibleCampaigns(k)
                        \/ VisibleCampaigns(k)[c].user_id # q.arg.user_id
                     THEN Reads(k, {})
                     ELSE LET row == IF q.arg.with_status
                                     THEN UpdatedRow_001(VisibleCampaigns(k)[c],
                                                         q.arg.body)
                                     ELSE UpdatedRow_000(VisibleCampaigns(k)[c],
                                                         q.arg.body)
                          IN  IF \/ row.type \notin CampaignTypes
                                 \/ row.status \notin Statuses
                              THEN Raises(k)
                              ELSE IF open
                              THEN Result(TRUE, {c},
                                      [cl EXCEPT !.campaigns = (c :> row) @@ @],
                                      campaigns, campaign_messages,
                                      campaign_recipients)
                              ELSE Result(TRUE, {c}, cl,
                                      [campaigns EXCEPT ![c] = row],
                                      campaign_messages, campaign_recipients)
             [] q.kind = "DELETE_MESSAGES" ->
                 IF open
                 THEN Result(TRUE, {},
                         [cl EXCEPT
                             !.deleted = @ \cup MessagesOf(campaign_messages,
                                                           q.arg.id),
                             !.messages = @ \ MessagesOf(@, q.arg.id)],
                         campaigns, campaign_messages, campaign_recipients)
                 ELSE Result(TRUE, {}, cl, campaigns,
                         campaign_messages
                            \ MessagesOf(campaign_messages, q.arg.id),
                         campaign_recipients)

\* ------------------------------------------------------------ handlers
\* A request in flight: the handler, its inputs, the statement it awaits
\* (pc), the campaign id it works on, the response code once answered and
\* what its SELECTs returned.
Request(kind, u, c) ==
    [kind |-> kind, user |-> u, id |-> c, pc |-> "done", code |-> 0,
     row |-> NoArg, entries |-> << >>, next |-> 0,
     contacts |-> << >>, left |-> 0, seen |-> {}]

\* The handler goes on with the queries qs / answers with code.
Go(req, qs)       == [request |-> req, issue |-> qs, code |-> 0]
Answer(req, code) ==
    [request |-> [req EXCEPT !.pc = "done", !.code = code], issue |-> << >>,
     code |-> code]

Await(req, r, kind, arg) ==
    Go([req EXCEPT !.pc = kind], <<Statement(r, kind, arg)>>)

InsertMessage(req, r, i) ==
    Go([req EXCEPT !.pc = "INSERT_MESSAGE", !.next = i],
       <<Statement(r, "INSERT_MESSAGE",
                   MessageRow(req.id, req.entries[i].sequence_number,
                              req.entries[i].message_type))>>)

\* POST /: BEGIN, INSERT INTO campaigns, one INSERT INTO campaign_messages
\* per entry, COMMIT; on an error inside the try block ROLLBACK and 500.
ContinueCreate(req, r, res) ==
    CASE req.pc = "BEGIN" ->
            IF res.ok THEN Await(req, r, "INSERT_CAMPAIGN", req.row)
                      ELSE Answer(req, 500)
      [] req.pc = "INSERT_CAMPAIGN" ->
            IF ~res.ok THEN Await(req, r, "ROLLBACK", NoArg)
            ELSE LET got == [req EXCEPT !.id = CHOOSE c \in res.rows : TRUE]
                 IN  IF got.entries = << >>
                     THEN Await(got, r, "COMMIT", NoArg)
                     ELSE InsertMessage(got, r, 1)
      [] req.pc = "INSERT_MESSAGE" ->
            IF ~res.ok THEN Await(req, r, "ROLLBACK", NoArg)
            ELSE IF req.next < Len(req.entries)
            THEN InsertMessage(req, r, req.next + 1)
            ELSE Await(req, r, "COMMIT", NoArg)
      [] req.pc = "COMMIT" ->
            IF res.ok THEN Answer(req, 201)
                      ELSE Await(req, r, "ROLLBACK", NoArg)
      [] req.pc = "ROLLBACK" -> Answer(req, 500)

\* GET /:id: the campaign, then its messages, then its recipients.
ContinueGet(req, r, res) ==
    CASE req.pc = "SELECT_CAMPAIGN" ->
            IF ~res.ok THEN Answer(req, 500)
            ELSE IF res.rows = {} THEN Answer(req, 404)
            ELSE Await(req, r, "SELECT_MESSAGES", [id |-> req.id])
      [] req.pc = "SELECT_MESSAGES" ->
            IF ~res.ok THEN Answer(req, 500)
            ELSE Await([req EXCEPT !.seen = res.rows], r, "SELECT_RECIPIENTS",
                       [id |-> req.id])
      [] req.pc = "SELECT_RECIPIENTS" ->
            IF res.ok THEN Answer(req, 200) ELSE Answer(req, 500)

\* POST /:id/recipients: the campaign, then Promise.all over one INSERT per
\* contact id, all issued before any is awaited.
ContinueRecipients(req, r, res) ==
    CASE req.pc = "SELECT_CAMPAIGN" ->
            IF ~res.ok THEN Answer(req, 500)
            ELSE IF res.rows = {} THEN Answer(req, 404)
            ELSE IF req.contacts = << >> THEN Answer(req, 200)
            ELSE Go([req EXCEPT !.pc = "INSERT_RECIPIENT",
                                !.left = Len(req.contacts)],
                    [i \in 1..Len(req.contacts) |->
                        Statement(r, "INSERT_RECIPIENT",
                                  RecipientRow(req.id, req.contacts[i]))])
      [] req.pc = "INSERT_RECIPIENT" ->
            LET rest == [req EXCEPT !.left = @ - 1,
                                    !.seen = @ \cup res.rows]
            IN  IF req.code # 0              \* already answered 500
                THEN Go(rest, << >>)
                ELSE IF ~res.ok
                THEN [request |-> [rest EXCEPT !.code = 500],
                      issue |-> << >>, code |-> 500]
                ELSE IF rest.left = 0 THEN Answer(rest, 200)
                ELSE Go(rest, << >>)

\* PUT /:id: the campaign, BEGIN, UPDATE campaigns and, if the body has
\* messages, DELETE FROM campaign_messages and one INSERT per entry, then
\* COMMIT; on an error inside the try block ROLLBACK and 500.  part_000
\* numbers the entries itself and gives them type || the type the SELECT
\* returned.
ContinueUpdate(req, r, res) ==
    CASE req.pc = "SELECT_CAMPAIGN" ->
            IF ~res.ok THEN Answer(req, 500)
            ELSE IF res.rows = {} THEN Answer(req, 404)
            ELSE LET body  == req.row.body
                     found == (res.client.campaigns @@ campaigns)[req.id]
                 IN  Await([req EXCEPT !.entries =
                               IF req.row.with_status
                               THEN Entries_001(body.messages, body.type)
                               ELSE Entries_000(body.messages,
                                       COALESCE(body.type, found.type, None))],
                           r, "BEGIN", NoArg)
      [] req.pc = "BEGIN" ->
            IF res.ok THEN Await(req, r, "UPDATE_CAMPAIGN", req.row)
                      ELSE Answer(req, 500)
      [] req.pc = "UPDATE_CAMPAIGN" ->
            IF ~res.ok THEN Await(req, r, "ROLLBACK", NoArg)
            ELSE IF req.row.body.has_messages
            THEN Await(req, r, "DELETE_MESSAGES", [id |-> req.id])
            ELSE Await(req, r, "COMMIT", NoArg)
      [] req.pc = "DELETE_MESSAGES" ->
            IF ~res.ok THEN Await(req, r, "ROLLBACK", NoArg)
            ELSE IF req.entries = << >> THEN Await(req, r, "COMMIT", NoArg)
            ELSE InsertMessage(req, r, 1)
      [] req.pc = "INSERT_MESSAGE" ->
            IF ~res.ok THEN Await(req, r, "ROLLBACK", NoArg)
            ELSE IF req.next < Len(req.entries)
            THEN InsertMessage(req, r, req.next + 1)
            ELSE Await(req, r, "COMMIT", NoArg)
      [] req.pc = "COMMIT" ->
            IF res.ok THEN Answer(req, 200)
                      ELSE Await(req, r, "ROLLBACK", NoArg)
      [] req.pc = "ROLLBACK" -> Answer(req, 500)

Continue(req, r, res) ==
    CASE req.kind = "create"     -> ContinueCreate(req, r, res)
      [] req.kind = "get"        -> ContinueGet(req, r, res)
      [] req.kind = "recipients" -> ContinueRecipients(req, r, res)
      [] req.kind = "update"     -> ContinueUpdate(req, r, res)

\* ------------------------------------------------------------- actions
PoolUnchanged == UNCHANGED <<clients, idle, waiting>>
TablesUnchanged ==
    UNCHANGED <<campaigns, campaign_messages, campaign_recipients,
                message_templates, message_text, builder>>

\* The handler of a new request runs up to its first await.
Arrive(req, first, code) ==
    LET r == Len(requests) + 1
    IN  IF code # 0
        THEN /\ requests' = Append(requests, [req EXCEPT !.code = code])
             /\ Respond(req.kind, code, req.id, req.user, None)
             /\ Elsewhere
             /\ PoolUnchanged /\ TablesUnchanged
             /\ UNCHANGED <<router, started>>
        ELSE LET P == Acquire(PoolOf(clients, idle, waiting),
                              Statement(r, first.kind, first.arg))
             IN  /\ requests' = Append(requests, [req EXCEPT !.pc = first.kind])
                 /\ Elsewhere
                 /\ clients' = P.clients
                 /\ idle' = P.idle
                 /\ waiting' = P.waiting
                 /\ TablesUnchanged
                 /\ UNCHANGED <<router, started, last, now>>

ArriveCreate_001(u, body) ==
    /\ router = "part_001"
    /\ Arrive([Request("create", u, 0) EXCEPT
                  !.entries = Entries_001(body.messages, body.type),
                  !.row = CampaignRow(u, body.type, body.message_count,
                                      IntervalOrDefault(body.interval_days),
                                      NULL)],
              [kind |-> "BEGIN", arg |-> NoArg],
              IF MissingRequired(body) THEN 400 ELSE 0)

ArriveCreate_000(u, body) ==
    /\ router = "part_000"
    /\ Arrive([Request("create", u, 0) EXCEPT
                  !.entries = Entries_000(body.messages, body.type),
                  !.row = CampaignRow(u, body.type, body.message_count,
                                      body.interval_days, NULL)],
              [kind |-> "BEGIN", arg |-> NoArg],
              IF MissingRequired(body) \/ CountMismatch_000(body)
              THEN 400 ELSE 0)

ArriveGet(u, c) ==
    Arrive(Request("get", u, c),
           [kind |-> "SELECT_CAMPAIGN", arg |-> [id |-> c, user_id |-> u]], 0)

ArriveRecipients(u, c, body) ==
    Arrive([Request("recipients", u, c) EXCEPT !.contacts = body.contact_ids],
           [kind |-> "SELECT_CAMPAIGN", arg |-> [id |-> c, user_id |-> u]],
           IF ~body.has_contact_ids THEN 400 ELSE 0)

ArriveUpdate_001(u, c, body) ==
    /\ router = "part_001"
    /\ Arrive([Request("update", u, c) EXCEPT
                  !.row = [id |-> c, user_id |-> u, body |-> body,
                           with_status |-> TRUE]],
              [kind |-> "SELECT_CAMPAIGN", arg |-> [id |-> c, user_id |-> u]],
              0)

ArriveUpdate_000(u, c, body) ==
    /\ router = "part_000"
    /\ Arrive([Request("update", u, c) EXCEPT
                  !.row = [id |-> c, user_id |-> u, body |-> body,
                           with_status |-> FALSE]],
              [kind |-> "SELECT_CAMPAIGN", arg |-> [id |-> c, user_id |-> u]],
              0)

\* Client k finishes its query and is released; the awaiting handler goes on
\* to its next await or to its response.
Complete(k) ==
    /\ clients[k].query # NoStatement
    /\ ~Blocked(k) \/ Deadlocked(k)
    /\ LET r    == clients[k].query.request
           res  == Outcome(k)
           step == Continue(requests[r], r, res)
           P    == AcquireAll(Release(PoolOf([clients EXCEPT ![k] = res.client],
                                             idle, waiting), k),
                              step.issue)
       IN  /\ campaigns' = res.campaigns
           /\ campaign_messages' = res.messages
           /\ campaign_recipients' = res.recipients
           /\ Elsewhere
           /\ clients' = P.clients
           /\ idle' = P.idle
           /\ waiting' = P.waiting
           /\ requests' = [requests EXCEPT ![r] = step.request]
           /\ IF step.code # 0
              THEN Respond(requests[r].kind, step.code, step.request.id,
                           requests[r].user, None)
              ELSE UNCHANGED <<last, now>>
           /\ UNCHANGED <<router, started, message_templates, message_text,
                          builder>>

\* ------------------------------------------------------ request inputs
\* messages arrays of one or two LinkedIn entries numbered 1 (the second
\* then repeats the first one's number and type), message_count matching.
PoolMessageLists ==
    UNION {[1..n -> [sequence_number : {1}, message_type : {"linkedin"}]] :
              n \in 1..(MaxMessages + 1)}

PoolCreateBodies ==
    {b \in [name : {TRUE}, type : {"linkedin", "mixed"},
            message_count : SeqNumbers, interval_days : {1},
            has_messages : {TRUE}, messages : PoolMessageLists] :
        b.message_count = Len(b.messages)}

\* At most MaxTime requests arrive in one behaviour.
MayArrive == Len(requests) < MaxTime

\* Every create request finds an unused campaign id.
MayCreate ==
    Cardinality({r \in 1..Len(requests) : requests[r].kind = "create"})
        < Cardinality(IdSpace)

NextPool ==
    \/ MayArrive /\ MayCreate /\ \E b \in PoolCreateBodies :
          ArriveCreate_001("u1", b)
    \/ MayArrive /\ MayCreate /\ \E b \in PoolCreateBodies :
          ArriveCreate_000("u1", b)
    \/ MayArrive /\ \E c \in CampaignIds : ArriveGet("u1", c)
    \/ \E k \in Conns : Complete(k)

SpecPool == Init /\ [][NextPool]_vars

\* C12: createCampaign is all-or-nothing.  A create request that inserted
\* its campaign row and then answered with an error leaves no campaign row
\* and no message row of that campaign behind, and a GET /:id of another
\* request that finds the campaign reads its whole message sequence.
C12_CreateAllOrNothing ==
    \A r \in 1..Len(requests) :
        LET req == requests[r]
        IN  /\ (req.kind = "create" /\ req.pc = "done" /\ ~Succeeded(req.code)
                  /\ req.id # 0)
               => /\ req.id \notin DOMAIN campaigns
                  /\ MessagesOf(campaign_messages, req.id) = {}
            /\ (req.kind = "get" /\ req.pc = "done" /\ req.code = 200)
               => \E w \in 1..Len(requests) :
                     /\ requests[w].kind = "create"
                     /\ requests[w].id = req.id
                     /\ req.seen = RowsOf(req.id, requests[w].entries)

\* The entries of a messages array carry the numbers 1..N, each once.
Contiguous(messages) ==
    /\ {messages[i].sequence_number : i \in 1..Len(messages)} = 1..Len(messages)
    /\ \A i, j \in 1..Len(messages) :
          i # j => messages[i].sequence_number # messages[j].sequence_number

\* C13: an update whose messages array is not numbered 1..N without gap or
\* repeat is answered with an error, and leaves the campaign's message
\* entries and message_count as they were.
C13_NonContiguousRejected ==
    [][\A c \in DOMAIN campaigns, b \in SeqUpdateBodies :
          (/\ b.has_messages
           /\ ~Contiguous(b.messages)
           /\ \/ UpdateCampaign_001("u1", c, b)
              \/ UpdateCampaign_000("u1", c, b))
             => /\ ~Succeeded(last'.code)
                /\ MessagesOf(campaign_messages', c)
                      = MessagesOf(campaign_messages, c)
                /\ campaigns'[c].message_count = campaigns[c].message_count]_vars

\* ===================================================================
\* Adding recipients while other requests are in flight
\* ===================================================================
\* contact_ids arrays, repeated ids included, or no contact_ids at all.
PoolRecipientBodies ==
    {[has_contact_ids |-> FALSE, contact_ids |-> << >>]}
       \cup [has_contact_ids : {TRUE},
             contact_ids : UNION {[1..n -> ContactIds] :
                                     n \in 1..(MaxContacts + 1)}]

\* Create requests of a LinkedIn campaign with one message.
OneMessageBodies ==
    {b \in PoolCreateBodies : b.type = "linkedin" /\ Len(b.messages) = 1}

NextRecipients ==
    \/ MayArrive /\ MayCreate /\ \E b \in OneMessageBodies :
          ArriveCreate_001("u1", b)
    \/ MayArrive /\ MayCreate /\ \E b \in OneMessageBodies :
          ArriveCreate_000("u1", b)
    \/ MayArrive /\ \E c \in CampaignIds, b \in PoolRecipientBodies :
          ArriveRecipients("u1", c, b)
    \/ \E k \in Conns : Complete(k)

SpecRecipients == Init /\ [][NextRecipients]_vars

\* The recipient entries among rows for campaign c and contact k.
EntriesFor(rows, c, k) ==
    {x \in rows : x.campaign_id = c /\ x.contact_id = k}

\* Every request has answered and no query is running or waiting.
Quiet ==
    /\ \A r \in 1..Len(requests) : requests[r].pc = "done" /\ requests[r].left = 0
    /\ \A k \in Conns : clients[k].query = NoStatement
    /\ waiting = << >>

\* C14: adding recipients is idempotent.  When every request has answered,
\* each contact id named by an add-recipients request that answered 200 has
\* exactly one stored entry for the campaign, however often the id was
\* named in this or another call; the INSERT of a pair that is already
\* stored does not make its request answer with an error; and no call
\* changes or removes a stored entry.
C14_AddRecipientsIdempotent ==
    [][/\ \A r \in 1..Len(requests') :
             LET req == requests'[r]
             IN  (Quiet' /\ req.kind = "recipients" /\ req.code = 200)
                    => \A i \in 1..Len(req.contacts) :
                          Cardinality(EntriesFor(campaign_recipients', req.id,
                                                 req.contacts[i])) = 1
       /\ \A k \in Conns :
             LET q == clients[k].query
             IN  (/\ q.kind = "INSERT_RECIPIENT"
                  /\ Complete(k)
                  /\ EntriesFor(campaign_recipients, q.arg.campaign_id,
                                q.arg.contact_id) # {})
                    => requests'[q.request].code
                          \in {requests[q.request].code, 200}
       /\ campaign_recipients \subseteq campaign_recipients']_vars

\* ===================================================================
\* Starting, pausing and resuming
\* ===================================================================
\* One more request than MaxTime, so that a campaign can be created,
\* started, paused and then resumed.
LifeCreateBodies ==
    {b \in CreateBodies :
        ~MissingRequired(b) /\ b.interval_days = 1 /\ Len(b.messages) = b.message_count}

LifeRecipientBodies == {b \in RecipientBodies : b.contact_ids = ContactIds}

InLifeTime == now <= MaxTime + 1

NextLife ==
    \/ InLifeTime /\ OneByOne /\ HasRoom /\ \E b \in LifeCreateBodies :
          CreateCampaign_001("u1", b)
    \/ InLifeTime /\ OneByOne /\ HasRoom /\ \E b \in LifeCreateBodies :
          CreateCampaign_000("u1", b)
    \/ InLifeTime /\ OneByOne /\ \E c \in CampaignIds, b \in LifeRecipientBodies :
          AddRecipients("u1", c, b)
    \/ InLifeTime /\ OneByOne /\ \E u \in Users, c \in CampaignIds :
          StartCampaign_001(u, c)
    \/ InLifeTime /\ OneByOne /\ \E u \in Users, c \in CampaignIds :
          StartCampaign_000(u, c)
    \/ InLifeTime /\ OneByOne /\ \E u \in Users, c \in CampaignIds, a \in PauseActions :
          PauseCampaign_001(u, c, a)
    \/ InLifeTime /\ OneByOne /\ \E u \in Users, c \in CampaignIds, a \in PauseActions :
          PauseCampaign_000(u, c, a)

SpecLife == Init /\ [][NextLife]_vars

\* C15: a request on the pause or the start route that pauses a campaign
\* (active to paused) or resumes it (paused to active) changes nothing but
\* the campaign's status: message_count, interval_days, start_date, the
\* message entries and the recipient entries stay as they were.
C15_PauseResumeFrame ==
    [][\A c \in DOMAIN campaigns :
          (/\ Handles("pause", c) \/ Handles("start", c)
           /\ <<campaigns[c].status, campaigns'[c].status>>
                 \in {<<"active", "paused">>, <<"paused", "active">>})
             => /\ campaigns'[c] = [campaigns[c] EXCEPT !.status = campaigns'[c].status]
                /\ MessagesOf(campaign_messages', c) = MessagesOf(campaign_messages, c)
                /\ RecipientsOf(campaign_recipients', c)
                      = RecipientsOf(campaign_recipients, c)]_vars

\* ===================================================================
\* Deleting one of several campaigns
\* ===================================================================
\* One campaign more than MaxCampaigns can be stored, so that a delete
\* leaves another campaign behind.
HasMoreRoom == Cardinality(DOMAIN campaigns) < MaxCampaigns + 1

NextDelete ==
    \/ InLifeTime /\ OneByOne /\ HasMoreRoom /\ \E u \in Users, b \in LifeCreateBodies :
          CreateCampaign_001(u, b)
    \/ InLifeTime /\ OneByOne /\ HasMoreRoom /\ \E u \in Users, b \in LifeCreateBodies :
          CreateCampaign_000(u, b)
    \/ InLifeTime /\ OneByOne /\ \E u \in Users, c \in IdSpace, b \in LifeRecipientBodies :
          AddRecipients(u, c, b)
    \/ InLifeTime /\ OneByOne /\ \E u \in Users, c \in IdSpace : DeleteCampaign(u, c)

SpecDelete == Init /\ [][NextDelete]_vars

\* C16: a delete request the owner's campaign c answers with success removes
\* the campaign; whenever a campaign row goes, no message entry and no
\* recipient entry of it remains, and every other campaign keeps its row,
\* its message entries and its recipient entries unchanged.
C16_DeleteCascades ==
    [][\A c \in DOMAIN campaigns :
          /\ (Handles("delete", c) /\ Succeeded(last'.code))
                => c \notin DOMAIN campaigns'
          /\ c \notin DOMAIN campaigns'
                => /\ MessagesOf(campaign_messages', c) = {}
                   /\ RecipientsOf(campaign_recipients', c) = {}
                   /\ \A d \in DOMAIN campaigns \ {c} :
                         /\ d \in DOMAIN campaigns'
                         /\ campaigns'[d] = campaigns[d]
                         /\ MessagesOf(campaign_messages', d)
                               = MessagesOf(campaign_messages, d)
                         /\ RecipientsOf(campaign_recipients', d)
                               = RecipientsOf(campaign_recipients, d)]_vars

\* C16 witness: a delete request has just removed a campaign, and another
\* campaign is stored with its message and recipient entries.
C16_Witness ==
    /\ last.op = "delete"
    /\ Succeeded(last.code)
    /\ last.id \notin DOMAIN campaigns
    /\ \E d \in DOMAIN campaigns :
          /\ MessagesOf(campaign_messages, d) # {}
          /\ RecipientsOf(campaign_recipients, d) # {}

\* C17: over every request a recipient entry's current_message_sequence
\* does not decrease, and afterwards it is at most its campaign's
\* message_count + 1, updates that change message_count included.
C17_ProgressWithinSequence ==
    [][\A x \in campaign_recipients' :
          /\ x.current_message_sequence
                <= campaigns'[x.campaign_id].message_count + 1
          /\ \A y \in EntriesFor(campaign_recipients, x.campaign_id, x.contact_id) :
                y.current_message_sequence <= x.current_message_sequence]_vars

\* A recipient that will get no further message: bounced, failed, or past
\* the last entry of its campaign's sequence.
TerminalRecipient(x) ==
    \/ x.status \in {"bounced", "failed"}
    \/ x.current_message_sequence > campaigns[x.campaign_id].message_count

\* C18: a recipient entry's next_message_scheduled_at is null exactly when
\* the recipient is terminal or its campaign is not active; so once a start
\* request has made the campaign active, each of its pending recipients has
\* a next_message_scheduled_at.
C18_ScheduledIffActive ==
    \A x \in campaign_recipients :
        x.next_message_scheduled_at = NULL
           <=> \/ TerminalRecipient(x)
               \/ campaigns[x.campaign_id].status # "active"

\* C19: for every campaign whose type is not mixed, each stored message
\* entry's message_type equals the campaign's type in every state reached
\* through create and update requests, an update of the type without
\* messages included; a request that would store another channel is
\* rejected and stores nothing.
C19_ChannelMatchesType ==
    \A m \in campaign_messages :
        campaigns[m.campaign_id].type # "mixed"
           => m.message_type = campaigns[m.campaign_id].type

\* ===================================================================
\* Message templates (src/unnamed/part_002)
\* ===================================================================
\* Every handler of the template router awaits one pool.query, which runs
\* in a session without a transaction and so is committed when it ends.
\* The request arrives (its query is handed to a client of the pool) and
\* completes (the statement runs, the client is released, the handler
\* answers); between the two, other template requests arrive and complete.
MaxTemplates == 1      \* templates created in one behaviour
TemplateIds  == 1..MaxTemplates

\* A row of message_templates as INSERT leaves it: usage_count is not
\* among the inserted columns and takes its default.
UsageDefault == 0
TemplateRow(u, mtype, subject, body, public) ==
    [user_id |-> u, message_type |-> mtype, subject |-> subject,
     message_body |-> body, is_public |-> public,
     usage_count |-> UsageDefault]

\* An id gen_random_uuid() gives a new message_templates row: never one
\* an earlier create request got.
NewTemplateId ==
    CHOOSE t \in TemplateIds :
        /\ t \notin DOMAIN message_templates
        /\ \A r \in 1..Len(requests) :
              requests[r].kind = "template_create" => requests[r].id # t

\* PUT /:id with usage_count in the body as well: a handler that took the
\* counter from the client like every other column.
UpdatedTemplate_SetsUsage(row, body) ==
    [row EXCEPT
        !.subject = IF body.subject = None THEN @ ELSE body.subject,
        !.message_body = IF body.message_body = None THEN @
                         ELSE body.message_body,
        !.is_public = IF body.has_is_public THEN body.is_public ELSE @,
        !.usage_count = IF body.usage_count = NULL THEN @
                        ELSE body.usage_count]

\* PUT /:id: each column COALESCE($n, column) over the destructured body
\* fields; usage_count is neither destructured nor in the SET list.
UpdatedTemplate(row, body) ==
    [row EXCEPT
        !.subject = IF body.subject = None THEN @ ELSE body.subject,
        !.message_body = IF body.message_body = None THEN @
                         ELSE body.message_body,
        !.is_public = IF body.has_is_public THEN body.is_public ELSE @]

TemplateResult(ok, rows, ts) == [ok |-> ok, rows |-> rows, templates |-> ts]

\* The outcome of the statement q on message_templates.
TemplateOutcome(q) ==
    LET ts == message_templates
        a  == q.arg
    IN  CASE q.kind = "INSERT_TEMPLATE" ->
                IF a.message_type \notin MessageTypes
                THEN TemplateResult(FALSE, {}, ts)
                ELSE TemplateResult(TRUE, {NewTemplateId},
                                    (NewTemplateId :> a) @@ ts)
          [] q.kind = "UPDATE_TEMPLATE" ->
                IF a.id \in DOMAIN ts /\ ts[a.id].user_id = a.user_id
                THEN TemplateResult(TRUE, {a.id},
                        [ts EXCEPT ![a.id] = UpdatedTemplate(@, a.body)])
                ELSE TemplateResult(TRUE, {}, ts)
          [] q.kind = "DELETE_TEMPLATE" ->
                IF a.id \in DOMAIN ts /\ ts[a.id].user_id = a.user_id
                THEN TemplateResult(TRUE, {a.id},
                        [t \in DOMAIN ts \ {a.id} |-> ts[t]])
                ELSE TemplateResult(TRUE, {}, ts)
          [] q.kind = "USE_TEMPLATE" ->
                IF /\ a.id \in DOMAIN ts
                   /\ (ts[a.id].user_id = a.user_id \/ ts[a.id].is_public)
                THEN TemplateResult(TRUE, {a.id},
                        [ts EXCEPT ![a.id].usage_count = @ + 1])
                ELSE TemplateResult(TRUE, {}, ts)

\* What the handler answers once its query has returned.
ContinueTemplate(req, res) ==
    IF ~res.ok THEN Answer(req, 500)
    ELSE IF req.kind = "template_create"
    THEN Answer([req EXCEPT !.id = CHOOSE t \in res.rows : TRUE], 201)
    ELSE IF res.rows = {} THEN Answer(req, 404)
    ELSE Answer(req, 200)

\* POST /
ArriveTemplateCreate(u, body) ==
    Arrive(Request("template_create", u, 0),
           [kind |-> "INSERT_TEMPLATE",
            arg |-> TemplateRow(u, body.message_type, body.subject,
                                body.message_body, body.is_public)],
           IF ~body.name \/ body.message_type = None \/ body.message_body = None
           THEN 400 ELSE 0)

\* PUT /:id
ArriveTemplateUpdate(u, t, body) ==
    Arrive(Request("template_update", u, t),
           [kind |-> "UPDATE_TEMPLATE",
            arg |-> [id |-> t, user_id |-> u, body |-> body]], 0)

\* DELETE /:id
ArriveTemplateDelete(u, t) ==
    Arrive(Request("template_delete", u, t),
           [kind |-> "DELETE_TEMPLATE", arg |-> [id |-> t, user_id |-> u]], 0)

\* POST /:id/use
ArriveTemplateUse(u, t) ==
    Arrive(Request("template_use", u, t),
           [kind |-> "USE_TEMPLATE", arg |-> [id |-> t, user_id |-> u]], 0)

\* Client k finishes its statement on message_templates and is released;
\* the handler answers.
CompleteTemplate(k) ==
    /\ clients[k].query # NoStatement
    /\ clients[k].txn = "none"
    /\ LET r    == clients[k].query.request
           res  == TemplateOutcome(clients[k].query)
           step == ContinueTemplate(requests[r], res)
           P    == Release(PoolOf(clients, idle, waiting), k)
       IN  /\ message_templates' = res.templates
           /\ Elsewhere
           /\ clients' = P.clients
           /\ idle' = P.idle
           /\ waiting' = P.waiting
           /\ requests' = [requests EXCEPT ![r] = step.request]
           /\ Respond(requests[r].kind, step.code, step.request.id,
                      requests[r].user, None)
           /\ UNCHANGED <<router, started, campaigns, campaign_messages,
                          campaign_recipients, message_text, builder>>

\* Request bodies: a create of a public or a private template; an
\* update of the text that also carries a usage_count field, and an update
\* that makes the template private.
TemplateCreateBodies ==
    [name : {TRUE}, message_type : {"linkedin"}, subject : {""},
     message_body : {"v1"}, is_public : BOOLEAN]

SentUsage == 7         \* a usage_count a client puts in its PUT body

TemplateUpdateBodies ==
    {[subject |-> None, message_body |-> "v2", has_is_public |-> FALSE,
      is_public |-> FALSE, usage_count |-> SentUsage],
     [subject |-> None, message_body |-> None, has_is_public |-> TRUE,
      is_public |-> FALSE, usage_count |-> NULL]}

\* Every create request finds an unused template id.  User u1 creates,
\* updates and deletes templates; both users record uses.
MayCreateTemplate ==
    Cardinality({r \in 1..Len(requests) :
                    requests[r].kind = "template_create"}) < MaxTemplates

NextTemplates ==
    \/ MayArrive /\ MayCreateTemplate /\ \E b \in TemplateCreateBodies :
          ArriveTemplateCreate("u1", b)
    \/ MayArrive /\ \E t \in TemplateIds, b \in TemplateUpdateBodies :
          ArriveTemplateUpdate("u1", t, b)
    \/ MayArrive /\ \E t \in TemplateIds : ArriveTemplateDelete("u1", t)
    \/ MayArrive /\ \E u \in Users, t \in TemplateIds : ArriveTemplateUse(u, t)
    \/ \E k \in Conns : CompleteTemplate(k)

SpecTemplates == Init /\ [][NextTemplates]_vars

\* The use requests on template t answered with 200 so far.
UsesAnswered(reqs, t) ==
    Cardinality({r \in 1..Len(reqs) :
                    /\ reqs[r].kind = "template_use"
                    /\ reqs[r].id = t
                    /\ reqs[r].code = 200})

\* C20: usage_count is a monotonic counter.  In every step of template
\* create, update, delete and use requests, a template that stays stored
\* keeps a usage_count no smaller than before; the count grows by exactly
\* the number of use requests on the template answered with 200 in the
\* step (one, or none: an update leaves it as it was); and it equals the
\* number of use requests on the template answered with 200 so far, so
\* two use requests in flight at the same time add 2.
C20_UsageCountMonotonic ==
    [][\A t \in DOMAIN message_templates \cap DOMAIN message_templates' :
          LET before == message_templates[t].usage_count
              after  == message_templates'[t].usage_count
          IN  /\ after >= before
              /\ after - before
                    = UsesAnswered(requests', t) - UsesAnswered(requests, t)
              /\ after - before \in {0, 1}
              /\ after = UsesAnswered(requests', t)]_vars

\* The later of two use requests on one template has been answered while
\* the earlier one is still in flight, and the count is 1.
C20_Witness ==
    \E r1, r2 \in 1..Len(requests) :
        /\ r2 < r1
        /\ requests[r1].kind = "template_use"
        /\ requests[r2].kind = "template_use"
        /\ requests[r1].id = requests[r2].id
        /\ requests[r1].code = 200
        /\ requests[r2].pc # "done"
        /\ requests[r1].id \in DOMAIN message_templates
        /\ message_templates[requests[r1].id].usage_count = 1

\* ===================================================================
\* Seeding a message from a template (CampaignBuilder, src/unnamed/part_014)
\* ===================================================================
\* The browser component holds the messages being edited and the template
\* list it fetched; the texts reach campaign_messages when the campaign is
\* saved.  Requests are handled one after the other here.

\* The subject and message_body columns of a campaign_messages row.  A NULL
\* and an empty subject are both "": the code tests subject for truthiness.
TextRow(c, seq, subject, body) ==
    [campaign_id |-> c, sequence_number |-> seq, subject |-> subject,
     message_body |-> body]

\* useState<CampaignMessageForm[]>: the one message a new form starts with.
NewMessage(i) ==
    [sequence_number |-> i, subject |-> "", message_body |-> "",
     message_type |-> "linkedin"]

\* The saved text rows of campaign c, by sequence number.
StoredMessages(c) ==
    LET rows == {x \in message_text : x.campaign_id = c}
        n    == Cardinality(rows)
        sq   == CHOOSE f \in [1..n -> rows] :
                    \A i, j \in 1..n :
                        i < j => f[i].sequence_number < f[j].sequence_number
    IN  [i \in 1..n |->
            [sequence_number |-> sq[i].sequence_number,
             subject |-> sq[i].subject, message_body |-> sq[i].message_body,
             message_type |-> "linkedin"]]

\* GET /templates: the rows the user owns and the public ones.
VisibleTemplates(u) ==
    [t \in {t \in DOMAIN message_templates :
               \/ message_templates[t].user_id = u
               \/ message_templates[t].is_public} |-> message_templates[t]]

\* A useTemplate that overwrites the subject with whatever the template
\* has, an empty one included.
SeededMessage_AlwaysSubject(msg, template) ==
    [msg EXCEPT !.message_body = template.message_body,
                !.subject = template.subject]

\* useTemplate: handleMessageChange(index, 'message_body', ...) and, if the
\* template has a subject, handleMessageChange(index, 'subject', ...).
SeededMessage(msg, template) ==
    [msg EXCEPT !.message_body = template.message_body,
                !.subject = IF template.subject # "" THEN template.subject
                            ELSE @]

\* A request to the template router handled with no other request in
\* flight: its one statement runs and the handler answers.
HandleTemplate(req, kind, arg, code) ==
    LET res  == TemplateOutcome(Statement(Len(requests) + 1, kind, arg))
        step == IF code # 0 THEN Answer(req, code)
                ELSE ContinueTemplate(req, res)
    IN  /\ message_templates' = IF code # 0 THEN message_templates
                                ELSE res.templates
        /\ requests' = Append(requests, step.request)
        /\ Respond(req.kind, step.code, step.request.id, req.user, None)
        /\ Elsewhere
        /\ PoolUnchanged
        /\ UNCHANGED <<router, started, campaigns, campaign_messages,
                       campaign_recipients, message_text>>

CreateTemplate(u, body) ==
    /\ HandleTemplate(Request("template_create", u, 0), "INSERT_TEMPLATE",
                      TemplateRow(u, body.message_type, body.subject,
                                  body.message_body, body.is_public),
                      IF \/ ~body.name
                         \/ body.message_type = None
                         \/ body.message_body = None
                      THEN 400 ELSE 0)
    /\ UNCHANGED builder

UpdateTemplate(u, t, body) ==
    /\ HandleTemplate(Request("template_update", u, t), "UPDATE_TEMPLATE",
                      [id |-> t, user_id |-> u, body |-> body], 0)
    /\ UNCHANGED builder

DeleteTemplate(u, t) ==
    /\ HandleTemplate(Request("template_delete", u, t), "DELETE_TEMPLATE",
                      [id |-> t, user_id |-> u], 0)
    /\ UNCHANGED builder

\* The component is mounted for a new campaign (c = 0) or to edit campaign
\* c, whose messages loadCampaign puts in the form; the template list is
\* not fetched yet.
MountBuilder(u, c) ==
    /\ ~builder.open
    /\ builder' = [open |-> TRUE, editCampaignId |-> c,
                   messages |-> IF c # 0 /\ OwnedBy(c, u)
                                THEN StoredMessages(c)
                                ELSE <<NewMessage(1)>>,
                   templates |-> << >>]
    /\ UNCHANGED <<router, campaigns, campaign_messages, campaign_recipients,
                   now, last, started, message_templates, message_text>>
    /\ Elsewhere
    /\ UNCHANGED poolVars

\* useQuery(['templates']): the list is fetched, or fetched again.
FetchTemplates(u) ==
    /\ builder.open
    /\ builder' = [builder EXCEPT !.templates = VisibleTemplates(u)]
    /\ UNCHANGED <<router, campaigns, campaign_messages, campaign_recipients,
                   now, last, started, message_templates, message_text>>
    /\ Elsewhere
    /\ UNCHANGED poolVars

\* The user types in the subject or the body of message index.
handleMessageChange(index, field, value) ==
    /\ builder.open
    /\ index \in DOMAIN builder.messages
    /\ builder' =
          [builder EXCEPT !.messages[index] =
              IF field = "subject" THEN [@ EXCEPT !.subject = value]
              ELSE [@ EXCEPT !.message_body = value]]
    /\ UNCHANGED <<router, campaigns, campaign_messages, campaign_recipients,
                   now, last, started, message_templates, message_text>>
    /\ Elsewhere
    /\ UNCHANGED poolVars

\* useTemplate(templateId, messageIndex): the template of the fetched list
\* is put into the message and apiClient.useTemplate records the use.
useTemplate(u, templateId, messageIndex) ==
    /\ builder.open
    /\ templateId \in DOMAIN builder.templates
    /\ messageIndex \in DOMAIN builder.messages
    /\ builder' = [builder EXCEPT !.messages[messageIndex] =
                      SeededMessage(@, builder.templates[templateId])]
    /\ HandleTemplate(Request("template_use", u, templateId), "USE_TEMPLATE",
                      [id |-> templateId, user_id |-> u], 0)

\* saveCampaign as a draft: once every message has a body the form goes to
\* POST / or, when editing, to PUT /:id; after a success onBack() unmounts
\* the component.  The handler stores message.subject || null and
\* message.message_body with each entry.
saveCampaign(u) ==
    LET msgs    == builder.messages
        c       == builder.editCampaignId
        entries == [i \in DOMAIN msgs |->
                       [sequence_number |-> msgs[i].sequence_number,
                        message_type |-> msgs[i].message_type]]
        saved(d) == {TextRow(d, msgs[i].sequence_number, msgs[i].subject,
                             msgs[i].message_body) : i \in DOMAIN msgs}
    IN  /\ builder.open
        /\ \A i \in DOMAIN msgs : msgs[i].message_body # ""
        /\ IF c = 0
           THEN LET body == [name |-> TRUE, type |-> "linkedin",
                             message_count |-> Len(msgs), interval_days |-> 1,
                             has_messages |-> TRUE, messages |-> entries]
                IN  \/ CreateCampaign_001(u, body)
                    \/ CreateCampaign_000(u, body)
           ELSE LET body == [type |-> "linkedin", status |-> None,
                             message_count |-> Len(msgs),
                             has_messages |-> TRUE, messages |-> entries]
                IN  \/ UpdateCampaign_001(u, c, body)
                    \/ UpdateCampaign_000(u, c, body)
        /\ IF last'.code \in {200, 201}
           THEN /\ message_text' =
                      {x \in message_text : x.campaign_id # last'.id}
                         \cup saved(last'.id)
                /\ builder' = NoBuilder
           ELSE UNCHANGED <<message_text, builder>>
        /\ Elsewhere
        /\ UNCHANGED poolVars
        /\ UNCHANGED message_templates

\* Request bodies and what the user types: a subject, or a change to a body
\* that is not empty.
SeedSubjects == {"", "s1"}
SeedCreateBodies ==
    [name : {TRUE}, message_type : {"linkedin"}, subject : SeedSubjects,
     message_body : {"v1"}, is_public : {FALSE}]
SeedUpdateBodies ==
    {[subject |-> None, message_body |-> "v2", has_is_public |-> FALSE,
      is_public |-> FALSE, usage_count |-> NULL]}
TypedTexts == {"", "x"}

NextSeed ==
    \/ MayArrive /\ MayCreateTemplate /\ \E b \in SeedCreateBodies :
          CreateTemplate("u1", b)
    \/ MayArrive /\ \E t \in TemplateIds, b \in SeedUpdateBodies :
          UpdateTemplate("u1", t, b)
    \/ MayArrive /\ \E t \in TemplateIds : DeleteTemplate("u1", t)
    \/ \E c \in {0} \cup CampaignIds : MountBuilder("u1", c)
    \/ FetchTemplates("u1")
    \/ \E i \in 1..MaxMessages, v \in TypedTexts :
          handleMessageChange(i, "subject", v)
    \/ \E i \in DOMAIN builder.messages :
          /\ builder.messages[i].message_body # ""
          /\ handleMessageChange(i, "message_body", "x")
    \/ MayArrive /\ \E t \in TemplateIds, i \in 1..MaxMessages :
          useTemplate("u1", t, i)
    \/ InTime /\ saveCampaign("u1")

SpecSeed == Init /\ [][NextSeed]_vars

\* No live reference between a template and the entries seeded from it: a
\* template update or delete leaves the stored entries and the messages
\* being edited as they are, and typing in a message or saving the campaign
\* leaves message_templates as it is.
NoLiveReference ==
    /\ (\/ \E t \in TemplateIds, b \in SeedUpdateBodies : UpdateTemplate("u1", t, b)
        \/ \E t \in TemplateIds : DeleteTemplate("u1", t))
          => /\ message_text' = message_text
             /\ campaign_messages' = campaign_messages
             /\ builder'.messages = builder.messages
    /\ (\/ \E i \in 1..MaxMessages, f \in {"subject", "message_body"},
              v \in TypedTexts : handleMessageChange(i, f, v)
        \/ saveCampaign("u1"))
          => message_templates' = message_templates

ListA == <<[sequence_number |-> 1, message_type |-> "linkedin"]>>
ListB == <<[sequence_number |-> 1, message_type |-> "email"]>>

ReplaceCreateBody ==
    [name |-> TRUE, type |-> "linkedin", message_count |-> 1,
     interval_days |-> 1, has_messages |-> TRUE, messages |-> ListA]

ReplaceBody(type, list) ==
    [type |-> type, status |-> None, message_count |-> Len(list),
     has_messages |-> TRUE, messages |-> list]

ReplaceBodies == {ReplaceBody("linkedin", ListA), ReplaceBody("email", ListB)}

\* The campaign is stored and its create request has answered.
Created ==
    /\ Len(requests) >= 1
    /\ requests[1].pc = "done"
    /\ requests[1].code = 201

\* The create request, then at most MaxTime more requests, each update
\* body at most once.
MayReplace(b) ==
    /\ Created
    /\ Len(requests) < MaxTime + 1
    /\ \A r \in 1..Len(requests) :
          requests[r].kind = "update" => requests[r].row.body # b

NextReplace ==
    \/ requests = << >> /\ ArriveCreate_001("u1", ReplaceCreateBody)
    \/ requests = << >> /\ ArriveCreate_000("u1", ReplaceCreateBody)
    \/ \E b \in ReplaceBodies : MayReplace(b) /\ ArriveUpdate_001("u1", requests[1].id, b)
    \/ \E b \in ReplaceBodies : MayReplace(b) /\ ArriveUpdate_000("u1", requests[1].id, b)
    \/ Created /\ Len(requests) < MaxTime + 1 /\ ArriveGet("u1", requests[1].id)
    \/ \E k \in Conns : Complete(k)

SpecReplace == Init /\ [][NextReplace]_vars

\* A request has not answered and no client can finish its query: every
\* running query waits for a transaction that no request will end.
Stuck ==
    /\ \E r \in 1..Len(requests) : requests[r].pc # "done"
    /\ \A k \in Conns :
          clients[k].query # NoStatement => Blocked(k) /\ ~Deadlocked(k)

\* The two update requests, with ListA and with ListB, have both arrived.
BothReplaced ==
    \A b \in ReplaceBodies :
        \E r \in 1..Len(requests) :
            requests[r].kind = "update" /\ requests[r].row.body = b

\* C22: two update requests replacing the message sequence of one campaign
\* with the lists A and B, in flight at the same time, always both finish,
\* and when every request has answered the stored sequence of the campaign
\* is exactly A or exactly B: not entries of both, not one sequence number
\* twice, not empty.
C22_ReplaceIsAtomic ==
    BothReplaced
       => /\ ~Stuck
          /\ Quiet
                => MessagesOf(campaign_messages, requests[1].id)
                      \in {RowsOf(requests[1].id, ListA),
                           RowsOf(requests[1].id, ListB)}

\* ===================================================================
\* Ownership: every campaign route works on the caller's campaigns only
\* ===================================================================
\* GET /: campaigns WHERE c.user_id = u, each with its recipient counts.
\* The response is logged with the campaigns its rows belong to.
ListCampaigns(u) ==
    /\ requests' = Append(requests,
          [Request("list", u, 0) EXCEPT
              !.code = 200,
              !.seen = {c \in DOMAIN campaigns : campaigns[c].user_id = u}])
    /\ Respond("list", 200, 0, u, None)
    /\ Elsewhere
    /\ PoolUnchanged /\ TablesUnchanged
    /\ UNCHANGED <<router, started>>

\* GET /:id: the campaign WHERE id = c AND user_id = u, 404 when there is no
\* row; then its message entries and its recipient entries by campaign_id.
GetCampaign(u, c) ==
    LET found == OwnedBy(c, u)
        rows  == {c}
                 \cup {m.campaign_id : m \in MessagesOf(campaign_messages, c)}
                 \cup {x.campaign_id : x \in RecipientsOf(campaign_recipients, c)}
        code  == IF found THEN 200 ELSE 404
    IN  /\ requests' = Append(requests,
              [Request("get", u, c) EXCEPT
                  !.code = code, !.seen = IF found THEN rows ELSE {}])
        /\ Respond("get", code, c, u, None)
        /\ Elsewhere
        /\ PoolUnchanged /\ TablesUnchanged
        /\ UNCHANGED <<router, started>>

\* Updates that replace the sequence, and one that sets the status.
OwnerUpdateBodies ==
    ReplaceBodies
    \cup {[type |-> None, status |-> "cancelled", message_count |-> NULL,
           has_messages |-> FALSE, messages |-> << >>]}

\* Every route, each called by every user on every campaign id.
NextOwner ==
    \/ InTime /\ OneByOne /\ HasRoom /\ \E u \in Users :
          CreateCampaign_001(u, ReplaceCreateBody)
    \/ InTime /\ OneByOne /\ HasRoom /\ \E u \in Users :
          CreateCampaign_000(u, ReplaceCreateBody)
    \/ InTime /\ \E u \in Users : ListCampaigns(u)
    \/ InTime /\ \E u \in Users, c \in CampaignIds : GetCampaign(u, c)
    \/ InTime /\ OneByOne /\ \E u \in Users, c \in CampaignIds, b \in RecipientBodies :
          AddRecipients(u, c, b)
    \/ InTime /\ OneByOne /\ \E u \in Users, c \in CampaignIds : StartCampaign_001(u, c)
    \/ InTime /\ OneByOne /\ \E u \in Users, c \in CampaignIds : StartCampaign_000(u, c)
    \/ InTime /\ OneByOne /\ \E u \in Users, c \in CampaignIds, a \in PauseActions :
          PauseCampaign_001(u, c, a)
    \/ InTime /\ OneByOne /\ \E u \in Users, c \in CampaignIds, a \in PauseActions :
          PauseCampaign_000(u, c, a)
    \/ InTime /\ OneByOne /\ \E u \in Users, c \in CampaignIds, b \in OwnerUpdateBodies :
          UpdateCampaign_001(u, c, b)
    \/ InTime /\ OneByOne /\ \E u \in Users, c \in CampaignIds, b \in OwnerUpdateBodies :
          UpdateCampaign_000(u, c, b)
    \/ InTime /\ OneByOne /\ \E u \in Users, c \in CampaignIds : DeleteCampaign(u, c)

SpecOwner == Init /\ [][NextOwner]_vars

\* The status codes by which a route refuses a campaign it finds no row for:
\* 404, and the 400 "Campaign not found or cannot be ..." of start and
\* pause/resume (400 is also the answer to a body that fails validation).
Refused(code) == code \in {400, 404}

\* The campaigns whose rows the response of the request just handled carries.
Returned(reqs, reqs_after) ==
    IF Len(reqs_after) > Len(reqs) THEN reqs_after[Len(reqs_after)].seen ELSE {}

\* C23: a request of user U (list, get, update, delete, add recipients,
\* start, pause/resume) leaves every campaign of another user, its message
\* entries and its recipient entries as they were, returns none of them, and
\* is refused when it names such a campaign.
C23_OwnershipIsolation ==
    [][\A c \in DOMAIN campaigns :
          (now' # now /\ campaigns[c].user_id # last'.user)
             => /\ c \in DOMAIN campaigns'
                /\ campaigns'[c] = campaigns[c]
                /\ MessagesOf(campaign_messages', c)
                      = MessagesOf(campaign_messages, c)
                /\ RecipientsOf(campaign_recipients', c)
                      = RecipientsOf(campaign_recipients, c)
                /\ c \notin Returned(requests, requests')
                /\ last'.id = c => Refused(last'.code)]_vars

\* Another user's request named a campaign that has message entries and
\* recipient entries, and was refused.
C23_Witness ==
    /\ last.id \in DOMAIN campaigns
    /\ last.op \in {"get", "update", "delete", "recipients", "start", "pause"}
    /\ campaigns[last.id].user_id # last.user
    /\ Refused(last.code)
    /\ MessagesOf(campaign_messages, last.id) # {}
    /\ RecipientsOf(campaign_recipients, last.id) # {}

\* ===================================================================
\* Recipient entries and the owner of their contact
\* ===================================================================
\* The contacts table: POST /contacts stores each contact under the user who
\* created it.  The campaign routes never write the table; the contacts
\* stored are one per id, those with an odd id created by u1, the others by u2.
contacts ==
    [k \in ContactIds |-> [user_id |-> IF k % 2 = 1 THEN "u1" ELSE "u2"]]

\* C24: every recipient entry links a campaign to a contact owned by the
\* user who owns the campaign, so the contact columns joined to the
\* recipient entries of a fetched campaign are those of the caller's contacts.
C24_RecipientContactOwned ==
    \A x \in campaign_recipients :
        x.campaign_id \in DOMAIN campaigns
           => contacts[x.contact_id].user_id = campaigns[x.campaign_id].user_id

\* ===================================================================
\* LinkedIn routes (src/server/routes/linkedin.ts) and LinkedInService
\* (src/server/services/linkedin.ts)
\* ===================================================================
\* The wall clock counts units of twenty minutes from the start of the
\* server, when setInterval is armed.
MaxClock   == 5        \* units of time a behaviour covers
MaxFlights == 3        \* LinkedIn requests in one behaviour
MaxWait    == 1        \* units of time a behaviour of the messaging routes covers
Hour       == 3        \* 60 * 60 * 1000 ms
ExpiresIn  == 2        \* tokenData.expires_in of a token LinkedIn hands out

\* An access token is named by the time at which LinkedIn stops accepting it.
Expired(token, t) == t >= token

\* A row of linkedin_connections.
ConnectionRow(id, u, token, refresh) ==
    [id |-> id, user_id |-> u, access_token |-> token,
     refresh_token |-> refresh, token_expires_at |-> token, is_active |-> TRUE]

NoConnection ==
    [id |-> 0, user_id |-> None, access_token |-> 0, refresh_token |-> FALSE,
     token_expires_at |-> 0, is_active |-> FALSE]

\* The columns of linkedin_connections under a unique constraint: the
\* primary key and linkedin_user_id.
UniqueColumns == {"id", "linkedin_user_id"}

\* The lookup without its is_active condition.
getConnection_Inactive(u) ==
    LET found == {x \in linkedin_connections : x.user_id = u}
    IN  IF found = {} THEN NoConnection ELSE CHOOSE x \in found : TRUE

\* SELECT * FROM linkedin_connections WHERE user_id = u AND is_active = true
getConnection(u) ==
    LET found == {x \in linkedin_connections : x.user_id = u /\ x.is_active}
    IN  IF found = {} THEN NoConnection ELSE CHOOSE x \in found : TRUE

\* INSERT INTO linkedin_connections ... ON CONFLICT (user_id) DO UPDATE SET
\* access_token = ..., is_active = true.  The statement names user_id as the
\* conflict target; PostgreSQL raises "there is no unique or exclusion
\* constraint matching the ON CONFLICT specification" when the target is
\* not the column list of a unique index, and saveConnection rethrows.
saveConnection(rows, u, token, refresh) ==
    IF "user_id" \notin UniqueColumns
    THEN [ok |-> FALSE, rows |-> rows]
    ELSE LET old == {x \in rows : x.user_id = u}
             id  == IF old = {} THEN Cardinality(rows) + 1
                    ELSE (CHOOSE x \in old : TRUE).id
         IN  [ok |-> TRUE,
              rows |-> (rows \ old) \cup {ConnectionRow(id, u, token, refresh)}]

\* A request to the LinkedIn router: the route, the authenticated user, the
\* await it stands at, the status answered, the connection the handler read
\* first, the state parameter, the user the state was stored for, the access
\* token obtained by an exchange or a refresh, the clock at arrival, and the
\* number of requests that had arrived when the connection was saved.
Flight(kind, u) ==
    [kind |-> kind, user |-> u, pc |-> "done", code |-> 0,
     connection |-> NoConnection, state |-> 0, userId |-> None,
     token |-> 0, at |-> clock, saved_when |-> 0]

Calls == {"send", "post", "sync"}

LinkedInElsewhere == UNCHANGED crmVars /\ UNCHANGED bootVars

\* GET /auth/initiate: crypto.randomBytes(32) is a value no earlier call
\* drew; the number of the request stands for it.
Initiate(u) ==
    LET r == Len(flights) + 1
    IN  /\ oauthStates' = (r :> [userId |-> u, timestamp |-> clock]) @@ oauthStates
        /\ flights' = Append(flights,
              [Flight("initiate", u) EXCEPT !.code = 200, !.state = r])
        /\ UNCHANGED <<linkedin_connections, clock, api>>
        /\ LinkedInElsewhere

\* GET /auth/callback up to its first await: the query is checked, the state
\* is looked up and deleted.  The route is not behind authenticateToken.
CallbackArrive(s, has_code) ==
    LET req == [Flight("callback", None) EXCEPT !.state = s]
    IN  /\ IF ~has_code \/ s \notin DOMAIN oauthStates
           THEN /\ flights' = Append(flights, [req EXCEPT !.code = 400])
                /\ UNCHANGED oauthStates
           ELSE /\ flights' = Append(flights,
                      [req EXCEPT !.pc = "exchange",
                                  !.userId = oauthStates[s].userId])
                /\ oauthStates' =
                      [t \in DOMAIN oauthStates \ {s} |-> oauthStates[t]]
        /\ UNCHANGED <<linkedin_connections, clock, api>>
        /\ LinkedInElsewhere

\* The handler answers with a redirect: 302 to ?linkedin=connected, 303
\* stands for the redirect to ?linkedin=error of the catch block.
Connected == 302
Failed    == 303

\* await exchangeCodeForToken(code): LinkedIn answers with a token or the
\* call throws.
CallbackExchange(r, ok) ==
    /\ r \in DOMAIN flights
    /\ flights[r].kind = "callback" /\ flights[r].pc = "exchange"
    /\ flights' = [flights EXCEPT ![r] =
          IF ok THEN [@ EXCEPT !.pc = "profile", !.token = clock + ExpiresIn]
          ELSE [@ EXCEPT !.pc = "done", !.code = Failed]]
    /\ UNCHANGED <<oauthStates, linkedin_connections, clock, api>>
    /\ LinkedInElsewhere

\* await getProfile(...): the profile or a throw; a failing getEmailAddress
\* is caught and the handler goes on.
CallbackProfile(r, ok) ==
    /\ r \in DOMAIN flights
    /\ flights[r].kind = "callback" /\ flights[r].pc = "profile"
    /\ flights' = [flights EXCEPT ![r] =
          IF ok THEN [@ EXCEPT !.pc = "save"]
          ELSE [@ EXCEPT !.pc = "done", !.code = Failed]]
    /\ UNCHANGED <<oauthStates, linkedin_connections, clock, api>>
    /\ LinkedInElsewhere

\* await saveConnection(stateData.userId, tokenData, profile, email)
CallbackSave(r, refresh) ==
    /\ r \in DOMAIN flights
    /\ flights[r].kind = "callback" /\ flights[r].pc = "save"
    /\ LET res == saveConnection(linkedin_connections, flights[r].userId,
                                 flights[r].token, refresh)
       IN  /\ linkedin_connections' = res.rows
           /\ flights' = [flights EXCEPT ![r] =
                 IF res.ok
                 THEN [@ EXCEPT !.pc = "done", !.code = Connected,
                                !.saved_when = Len(flights)]
                 ELSE [@ EXCEPT !.pc = "done", !.code = Failed]]
    /\ UNCHANGED <<oauthStates, clock, api>>
    /\ LinkedInElsewhere

\* Time passes; every Hour the setInterval callback deletes the states with
\* data.timestamp < Date.now() - Hour.
Tick ==
    /\ clock' = clock + 1
    /\ oauthStates' =
          IF clock' % Hour = 0
          THEN LET kept == {s \in DOMAIN oauthStates :
                              ~(oauthStates[s].timestamp < clock' - Hour)}
               IN  [s \in kept |-> oauthStates[s]]
          ELSE oauthStates
    /\ UNCHANGED <<linkedin_connections, flights, api>>
    /\ LinkedInElsewhere

\* DELETE /connection
Disconnect(u) ==
    /\ linkedin_connections' =
          {IF x.user_id = u THEN [x EXCEPT !.is_active = FALSE] ELSE x :
              x \in linkedin_connections}
    /\ flights' = Append(flights, [Flight("disconnect", u) EXCEPT !.code = 200])
    /\ UNCHANGED <<oauthStates, clock, api>>
    /\ LinkedInElsewhere

\* POST /messages/send, POST /posts, POST /sync up to the answer of
\* getConnection(req.user.id): the body, when there is one, is valid.
CallArrive(u, kind) ==
    LET connection == getConnection(u)
        req == [Flight(kind, u) EXCEPT !.connection = connection]
    IN  /\ flights' = Append(flights,
              IF connection = NoConnection THEN [req EXCEPT !.code = 400]
              ELSE [req EXCEPT !.pc = "validate"])
        /\ UNCHANGED <<oauthStates, linkedin_connections, clock, api>>
        /\ LinkedInElsewhere

\* validateAndRefreshToken(userId): reads the connection again; an expired
\* token is refreshed when there is a refresh token, and the new token is
\* written to the row.  refreshAccessToken succeeds (ok) or throws.
CallValidate(r, ok) ==
    /\ r \in DOMAIN flights
    /\ flights[r].kind \in Calls /\ flights[r].pc = "validate"
    /\ LET connection == getConnection(flights[r].user)
           expired    == Expired(connection.token_expires_at, clock)
           fresh      == clock + ExpiresIn
       IN  IF connection = NoConnection
              \/ (expired /\ ~(connection.refresh_token /\ ok))
           THEN /\ flights' = [flights EXCEPT ![r] =
                      [@ EXCEPT !.pc = "done", !.code = 401]]
                /\ UNCHANGED linkedin_connections
           ELSE IF expired
           THEN /\ linkedin_connections' =
                      {IF x.id = connection.id
                       THEN [x EXCEPT !.access_token = fresh,
                                      !.token_expires_at = fresh]
                       ELSE x : x \in linkedin_connections}
                /\ flights' = [flights EXCEPT ![r] =
                      [@ EXCEPT !.pc = "call", !.token = fresh]]
           ELSE /\ flights' = [flights EXCEPT ![r] = [@ EXCEPT !.pc = "call"]]
                /\ UNCHANGED linkedin_connections
    /\ UNCHANGED <<oauthStates, clock, api>>
    /\ LinkedInElsewhere

\* sendMessage(connection.accessToken, ...) and createPost(
\* connection.accessToken, ...) are called with the connection read on
\* arrival; syncMessages(userId) reads the connection itself and throws when
\* there is none.  LinkedIn serves the call (ok) or the call throws.
CallApi(r, ok) ==
    /\ r \in DOMAIN flights
    /\ flights[r].kind \in Calls /\ flights[r].pc = "call"
    /\ LET connection == IF flights[r].kind = "sync"
                         THEN getConnection(flights[r].user)
                         ELSE flights[r].connection
       IN  IF connection = NoConnection
           THEN /\ flights' = [flights EXCEPT ![r] =
                      [@ EXCEPT !.pc = "done", !.code = 500]]
                /\ UNCHANGED api
           ELSE /\ api' = Append(api, [api |-> flights[r].kind, request |-> r,
                                       token |-> connection.access_token,
                                       at |-> clock])
                /\ flights' = [flights EXCEPT ![r] =
                      [@ EXCEPT !.pc = "done",
                                !.code = IF ok THEN 200 ELSE 500]]
    /\ UNCHANGED <<oauthStates, linkedin_connections, clock>>
    /\ LinkedInElsewhere

MayFly  == Len(flights) < MaxFlights
MayTick == clock < MaxClock

\* The database outlives the server process: when the server starts the
\* table holds the rows it was left with, here none or the connection of u1
\* whose access token expires at time 1, with or without a refresh token.
StoredConnections ==
    {{}} \cup {{ConnectionRow(1, "u1", 1, refresh)} : refresh \in BOOLEAN}

InitMessaging ==
    /\ InitCrm /\ router = "part_001" /\ InitBooted
    /\ oauthStates = << >>
    /\ linkedin_connections \in StoredConnections
    /\ clock = 0
    /\ flights = << >>
    /\ api = << >>

\* The requests of u1 to the messaging routes and to DELETE /connection,
\* and an OAuth flow of u1, while time passes.
NextMessaging ==
    \/ MayFly /\ \E kind \in Calls : CallArrive("u1", kind)
    \/ \E r \in DOMAIN flights, ok \in BOOLEAN : CallValidate(r, ok)
    \/ \E r \in DOMAIN flights : CallApi(r, TRUE)
    \/ MayFly /\ Disconnect("u1")
    \/ MayFly /\ Initiate("u1")
    \/ MayFly /\ \E s \in DOMAIN oauthStates : CallbackArrive(s, TRUE)
    \/ \E r \in DOMAIN flights : CallbackExchange(r, TRUE)
    \/ \E r \in DOMAIN flights : CallbackProfile(r, TRUE)
    \/ \E r \in DOMAIN flights : CallbackSave(r, TRUE)
    \/ clock < MaxWait /\ Tick

SpecMessaging == InitMessaging /\ [][NextMessaging]_vars

\* C25: a send-message or create-post request whose validateAndRefreshToken
\* refreshed the stored access token calls LinkedIn with the refreshed
\* token, not with the expired one.
C25_CallUsesRefreshedToken ==
    \A i \in DOMAIN api :
        LET request == flights[api[i].request]
        IN  (api[i].api \in {"send", "post"} /\ request.token # 0)
               => api[i].token = request.token

\* DELETE /connection among the messaging requests and an OAuth flow of u1,
\* whose exchange and profile calls succeed, with the stored token in date.
InitDisconnect ==
    /\ InitCrm /\ router = "part_001" /\ InitBooted
    /\ oauthStates = << >>
    /\ linkedin_connections \in {{}, {ConnectionRow(1, "u1", 1, TRUE)}}
    /\ clock = 0
    /\ flights = << >>
    /\ api = << >>

NextDisconnect ==
    \/ MayFly /\ \E kind \in Calls : CallArrive("u1", kind)
    \/ \E r \in DOMAIN flights : CallValidate(r, TRUE)
    \/ \E r \in DOMAIN flights : CallApi(r, TRUE)
    \/ MayFly /\ Disconnect("u1")
    \/ MayFly /\ Initiate("u1")
    \/ MayFly /\ \E s \in DOMAIN oauthStates : CallbackArrive(s, TRUE)
    \/ \E r \in DOMAIN flights : CallbackExchange(r, TRUE)
    \/ \E r \in DOMAIN flights : CallbackProfile(r, TRUE)
    \/ \E r \in DOMAIN flights : CallbackSave(r, TRUE)

SpecDisconnect == InitDisconnect /\ [][NextDisconnect]_vars

\* A callback stored the connection of u after request d had been handled and
\* before request r arrived.
Reactivated(d, r, u) ==
    \E c \in DOMAIN flights :
        /\ flights[c].kind = "callback" /\ flights[c].userId = u
        /\ flights[c].code = Connected
        /\ d <= flights[c].saved_when /\ flights[c].saved_when < r

\* Request r of the user of DELETE /connection request d, which answered 200,
\* arrived after it with no callback storing the connection in between.
AfterDisconnect(d, r) ==
    /\ d < r
    /\ flights[d].kind = "disconnect" /\ flights[d].code = 200
    /\ flights[r].kind \in Calls /\ flights[r].user = flights[d].user
    /\ ~Reactivated(d, r, flights[d].user)

\* C28: after DELETE /connection has answered, every send-message,
\* create-post and sync request of that user is answered 400 'No LinkedIn
\* connection found' and calls no LinkedIn API, until an OAuth callback
\* stores the connection again.
C28_DisconnectedIsRejected ==
    \A d \in DOMAIN flights, r \in DOMAIN flights :
        AfterDisconnect(d, r)
           => /\ flights[r].pc = "done" /\ flights[r].code = 400
              /\ \A i \in DOMAIN api : api[i].request # r

\* A connection that was active is disabled and a later request is rejected.
C28_Witness ==
    \E d \in DOMAIN flights, r \in DOMAIN flights :
        /\ AfterDisconnect(d, r)
        /\ flights[r].code = 400
        /\ \E x \in linkedin_connections :
              x.user_id = flights[d].user /\ ~x.is_active

\* ------------------------------------------------------------ OAuth flow
\* Both users begin OAuth flows; any state that was ever issued, or none
\* that was, comes back in a callback, with or without a code; LinkedIn's
\* token and profile calls succeed or throw; time passes.
NextOAuth ==
    \/ MayFly /\ \E u \in Users : Initiate(u)
    \/ MayFly /\ \E s \in 1..MaxFlights, has_code \in BOOLEAN :
          CallbackArrive(s, has_code)
    \/ \E r \in DOMAIN flights, ok \in BOOLEAN : CallbackExchange(r, ok)
    \/ \E r \in DOMAIN flights, ok \in BOOLEAN : CallbackProfile(r, ok)
    \/ \E r \in DOMAIN flights, refresh \in BOOLEAN : CallbackSave(r, refresh)
    \/ MayTick /\ Tick

InitOAuth == Init /\ router = "part_001"

SpecOAuth == InitOAuth /\ [][NextOAuth]_vars

\* The callback request r found its state in oauthStates.
Accepted(r) == flights[r].kind = "callback" /\ flights[r].userId # None

\* C26: a state issued by /auth/initiate is accepted by /auth/callback at
\* most once, whatever becomes of the token exchange and the profile fetch;
\* the callback acts for the user who initiated the state, and when it comes
\* to saveConnection the connection is stored for that user.
C26_StateUsedOnce ==
    /\ [](\A a \in DOMAIN flights, b \in DOMAIN flights :
             (Accepted(a) /\ Accepted(b) /\ flights[a].state = flights[b].state)
                => a = b)
    /\ [](\A r \in DOMAIN flights :
             Accepted(r) => /\ flights[r].state \in DOMAIN flights
                            /\ flights[flights[r].state].kind = "initiate"
                            /\ flights[r].userId = flights[flights[r].state].user)
    /\ [][\A r \in DOMAIN flights :
             (flights[r].pc = "save" /\ flights'[r].pc = "done")
                => \E x \in linkedin_connections' :
                      /\ x.user_id = flights[r].userId /\ x.is_active
                      /\ x.access_token = flights[r].token]_vars

\* C27: a state is accepted only within one hour of its issue, whenever the
\* hourly sweep runs.
C27_StateExpiresAfterOneHour ==
    \A r \in DOMAIN flights :
        Accepted(r) => flights[r].at - flights[flights[r].state].at <= Hour

\* ===================================================================
\* Server start: initializeApp (src/unnamed/part_005)
\* ===================================================================
maxAttempts == 5

BootElsewhere == UNCHANGED crmVars /\ UNCHANGED linkedinVars

\* createDatabasePool has built the pool, with ssl in production, and
\* initializeApp stands before the while loop.
InitBoot ==
    /\ InitCrm /\ router = "part_001" /\ InitLinkedInIdle
    /\ production \in BOOLEAN
    /\ pool_ssl = production
    /\ connected = FALSE
    /\ attempts = 0
    /\ tables = FALSE
    /\ phase = "loop"
    /\ attempt_log = << >>

\* console.log of what attempt n ended with: the log holds one line for each
\* attempt made.
Logs(log, n, outcome) ==
    IF n = Len(log) + 1 THEN Append(log, outcome)
    ELSE IF n \in DOMAIN log THEN [log EXCEPT ![n] = outcome]
    ELSE log

\* attempts stays as it is.
Attempted_Same(n) == n

\* attempts++
Attempted(n) == n + 1

\* while (!connected && attempts < maxAttempts): the next iteration, or the
\* code after the loop.
LoopTest(c, n) == IF ~c /\ n < maxAttempts THEN "attempt" ELSE "serve"

\* The catch block: what an error with this message leads to.  A message
\* naming a certificate, in production and on the first attempt, replaces the
\* pool by one without ssl and continues; the last attempt breaks; any other
\* waits two seconds.
Caught(certificate, n) ==
    IF certificate /\ production /\ n = 1 THEN "fallback"
    ELSE IF n >= maxAttempts THEN "break"
    ELSE "wait"

Catch(certificate, n, c) ==
    LET to == Caught(certificate, n)
    IN  /\ pool_ssl' = IF to = "fallback" THEN FALSE ELSE pool_ssl
        /\ phase' = CASE to = "fallback" -> LoopTest(c, n)
                      [] to = "break"    -> "serve"
                      [] to = "wait"     -> "wait"

\* The loop is entered or left.
EnterLoop ==
    /\ phase = "loop"
    /\ phase' = LoopTest(connected, attempts)
    /\ UNCHANGED <<production, pool_ssl, connected, attempts, tables,
                   attempt_log>>
    /\ BootElsewhere

\* attempts++; await pool.connect(); client.release(); connected = true.
\* The connection is made, or pool.connect() rejects; only a pool with ssl
\* rejects with a message about a certificate.
Connect(outcome) ==
    /\ phase = "attempt"
    /\ outcome = "certificate" => pool_ssl
    /\ attempts' = Attempted(attempts)
    /\ IF outcome = "connected"
       THEN /\ connected' = TRUE
            /\ phase' = "initialize"
            /\ UNCHANGED <<pool_ssl, attempt_log>>
       ELSE /\ Catch(outcome = "certificate", attempts', connected)
            /\ attempt_log' = Logs(attempt_log, attempts', outcome)
            /\ UNCHANGED connected
    /\ UNCHANGED <<production, tables>>
    /\ BootElsewhere

\* await initializeDatabase(): createTables runs to its end, or a statement
\* fails and initializeDatabase rethrows into the loop's catch block.
Initialize(outcome) ==
    /\ phase = "initialize"
    /\ IF outcome = "initialized"
       THEN /\ tables' = TRUE
            /\ phase' = LoopTest(connected, attempts)
            /\ UNCHANGED pool_ssl
       ELSE /\ Catch(outcome = "certificate", attempts, connected)
            /\ UNCHANGED tables
    /\ attempt_log' = Logs(attempt_log, attempts, outcome)
    /\ UNCHANGED <<production, connected, attempts>>
    /\ BootElsewhere

\* The two seconds of setTimeout are over.
Wake ==
    /\ phase = "wait"
    /\ phase' = LoopTest(connected, attempts)
    /\ UNCHANGED <<production, pool_ssl, connected, attempts, tables,
                   attempt_log>>
    /\ BootElsewhere

\* Middleware and routes are set up and app.listen(PORT) is called.
Listen ==
    /\ phase = "serve"
    /\ phase' = "listening"
    /\ UNCHANGED <<production, pool_ssl, connected, attempts, tables,
                   attempt_log>>
    /\ BootElsewhere

ConnectOutcomes    == {"connected", "refused", "certificate"}
InitializeOutcomes == {"initialized", "failed", "certificate"}

NextBoot ==
    \/ EnterLoop
    \/ \E outcome \in ConnectOutcomes : Connect(outcome)
    \/ \E outcome \in InitializeOutcomes : Initialize(outcome)
    \/ Wake
    \/ Listen

SpecBoot == InitBoot /\ [][NextBoot]_vars

\* Every await of initializeApp settles: pool.connect() resolves or rejects,
\* createTables ends or throws, the timer fires.
SpecBootFair == SpecBoot /\ WF_vars(NextBoot)

\* C29: whatever each attempt ends with, the SSL fallback of the first
\* attempt included, the loop makes at most maxAttempts attempts and the
\* server comes to listen, connected or not.
C29_StartupTerminates ==
    /\ [](attempts <= maxAttempts)
    /\ <>(phase = "listening")

\* The server listens without a connection after maxAttempts failures, the
\* first of which replaced the pool.
C29_Witness ==
    /\ phase = "listening"
    /\ attempts = maxAttempts
    /\ ~connected
    /\ attempt_log[1] = "certificate" /\ ~pool_ssl

\* C30: when the loop has ended with connected set, initializeDatabase has
\* run to its end.
C30_ConnectedHasTables ==
    (phase \in {"serve", "listening"} /\ connected) => tables

====
